---- MODULE Spec2Model ----
(***************************************************************************)
(* Aurum Finance backend (src/backend/server.py): the document store's    *)
(* collections, the entity CRUD handlers and the recurring-transaction    *)
(* materializer, as a state machine over one server clock.                *)
(***************************************************************************)
EXTENDS Integers, Sequences, FiniteSets, TLC

VARIABLES
    now,            \* the server clock's reading, in ticks (datetime.now / utcnow)
    nextId,         \* source of fresh record ids (uuid.uuid4)
    transactions,   \* db.transactions, in insertion order
    assets,         \* db.assets
    liabilities,    \* db.liabilities
    budgets,        \* db.budgets
    savings_goals,  \* db.savings_goals
    response,       \* the response of the last handled request
    users,          \* db.users
    registering,    \* the register requests in flight: what each has read so far
    processing,     \* the process-recurring invocations in flight, between their awaits
    updating        \* the update requests in flight, between update_one and find_one

vars == <<now, nextId, transactions, assets, liabilities, budgets, savings_goals, response,
          users, registering, processing, updating>>

(***************************************************************************)
(* Bounds of the model.                                                    *)
(***************************************************************************)
MaxTxn == 3        \* records db.transactions grows to when the materializer runs
MaxCreates == 2    \* records created, over all collections, when the CRUD routes run
MaxRegistrations == 2  \* register requests handled, in flight together at most
MaxReportRecords == 3  \* records created, over all collections, when the reports run
MaxInvocations == 2    \* process-recurring invocations in flight together
MaxUpdates == 1        \* update requests in flight between their write and their read-back

(***************************************************************************)
(* Calendar: a date is its number of days since EpochYear-01-01, a         *)
(* datetime the number of ticks since that midnight.                       *)
(***************************************************************************)
EpochYear == 2023
TicksPerDay == 2

IsLeap(y) == (y % 4 = 0 /\ y % 100 /= 0) \/ y % 400 = 0

DaysInYear(y) == IF IsLeap(y) THEN 366 ELSE 365

DaysInMonth(y, m) ==
    IF m = 2 THEN (IF IsLeap(y) THEN 29 ELSE 28)
    ELSE IF m \in {4, 6, 9, 11} THEN 30 ELSE 31

RECURSIVE DaysBeforeYear(_)
DaysBeforeYear(y) == IF y <= EpochYear THEN 0 ELSE DaysBeforeYear(y - 1) + DaysInYear(y - 1)

RECURSIVE DaysBeforeMonth(_, _)
DaysBeforeMonth(y, m) == IF m <= 1 THEN 0 ELSE DaysBeforeMonth(y, m - 1) + DaysInMonth(y, m - 1)

\* date(y, m, d)
MkDate(y, m, d) == DaysBeforeYear(y) + DaysBeforeMonth(y, m) + (d - 1)

RECURSIVE YearFrom(_, _)
YearFrom(y, n) == IF n < DaysInYear(y) THEN y ELSE YearFrom(y + 1, n - DaysInYear(y))

RECURSIVE MonthFrom(_, _, _)
MonthFrom(y, m, n) == IF n < DaysInMonth(y, m) THEN m ELSE MonthFrom(y, m + 1, n - DaysInMonth(y, m))

\* the calendar, tabulated once for the days EpochYear-01-01 .. (EpochYear+2)-12-31
LastDay == MkDate(EpochYear + 3, 1, 1) - 1

YearTable == [n \in 0..LastDay |-> YearFrom(EpochYear, n)]

MonthTable == [n \in 0..LastDay |-> MonthFrom(YearTable[n], 1, n - DaysBeforeYear(YearTable[n]))]

DayTable == [n \in 0..LastDay |-> n - MkDate(YearTable[n], MonthTable[n], 1) + 1]

\* date.year, date.month, date.day
YearOf(date) == YearTable[date]
MonthOf(date) == MonthTable[date]
DayOf(date) == DayTable[date]

\* datetime(y, m, d): midnight of that day
MkDateTime(y, m, d) == MkDate(y, m, d) * TicksPerDay

\* datetime.date()
DateOf(dt) == dt \div TicksPerDay

\* datetime.combine(date, datetime.min.time())
Midnight(date) == date * TicksPerDay

(***************************************************************************)
(* Values.                                                                 *)
(***************************************************************************)
Users == {"A", "B"}

NoDate == -1           \* Optional[datetime] = None
NoFreq == "None"       \* Optional[str] = None

RecurringSuffix == " (Recurring)"

Range(s) == {s[i] : i \in 1..Len(s)}

RECURSIVE SumSeq(_)
SumSeq(s) == IF s = <<>> THEN 0 ELSE Head(s) + SumSeq(Tail(s))

\* Transaction(user_id=..., **transaction_data.dict()) with a fresh id
MkTransaction(id, user_id, data, created_at) ==
    [id |-> id, user_id |-> user_id, type |-> data.type, amount |-> data.amount,
     description |-> data.description, category |-> data.category, date |-> data.date,
     is_recurring |-> data.is_recurring, frequency |-> data.frequency,
     recurring_start_date |-> data.recurring_start_date, created_at |-> created_at]

\* what a handler answers: the operation, the authenticated caller, the HTTP status,
\* the id the request named, the record(s) of the body and, for the materializer,
\* the count of its message
Resp(op, user, status, id, body, count) ==
    [op |-> op, user |-> user, status |-> status, id |-> id, body |-> body, count |-> count]

PageSize == 1000       \* cursor.to_list(1000)

\* cursor.to_list(n): at most the first n documents of the cursor
ToList(s, n) == IF Len(s) <= n THEN s ELSE SubSeq(s, 1, n)

(***************************************************************************)
(* Recurring-transaction materializer (process_recurring_transactions).   *)
(***************************************************************************)

\* mutant: the weekly branch skips the start date itself
WeeklyDue_strict(today, start_date) ==
    LET days_diff == today - start_date
    IN  days_diff > 0 /\ days_diff % 7 = 0

\* mutant: the weekly branch does not look at the sign of days_diff
WeeklyDue_anySign(today, start_date) ==
    LET days_diff == today - start_date
    IN  days_diff % 7 = 0

\* mutant: the weekly branch fires on any day from the start date on
WeeklyDue_anyDay(today, start_date) ==
    LET days_diff == today - start_date
    IN  days_diff >= 0

\* the weekly branch: days_diff >= 0 and days_diff % 7 == 0
WeeklyDue(today, start_date) ==
    LET days_diff == today - start_date
    IN  days_diff >= 0 /\ days_diff % 7 = 0

\* mutant: a start day the month lacks falls on the month's last day
MonthlyDue_clamped(today, start_date) ==
    LET last == DaysInMonth(YearOf(today), MonthOf(today))
        due == IF DayOf(start_date) > last THEN last ELSE DayOf(start_date)
    IN  DayOf(today) = due /\ today > start_date

\* mutant: the monthly branch also fires on the start date
MonthlyDue_notStrict(today, start_date) ==
    DayOf(today) = DayOf(start_date) /\ today >= start_date

\* the monthly branch's date test: same day of month, strictly after the start
MonthlyDue(today, start_date) ==
    DayOf(today) = DayOf(start_date) /\ today > start_date

\* the yearly branch's date test: same month and day, a later year
YearlyDue(today, start_date) ==
    /\ MonthOf(today) = MonthOf(start_date)
    /\ DayOf(today) = DayOf(start_date)
    /\ YearOf(today) > YearOf(start_date)

\* find_one of the monthly branch: "did we already create this month's transaction"
ExistingMonthly(txns, transaction, today) ==
    \E i \in 1..Len(txns) :
        /\ txns[i].user_id = transaction.user_id
        /\ txns[i].description = transaction.description
        /\ txns[i].amount = transaction.amount
        /\ txns[i].date >= MkDateTime(YearOf(today), MonthOf(today), 1)
        /\ txns[i].date <= MkDateTime(YearOf(today), MonthOf(today), DayOf(today))
        /\ txns[i].is_recurring = FALSE

\* find_one of the yearly branch: "did we already create this year's transaction"
ExistingYearly(txns, transaction, today) ==
    \E i \in 1..Len(txns) :
        /\ txns[i].user_id = transaction.user_id
        /\ txns[i].description = transaction.description
        /\ txns[i].amount = transaction.amount
        /\ txns[i].date >= MkDateTime(YearOf(today), 1, 1)
        /\ txns[i].date <= MkDateTime(YearOf(today), 12, 31)
        /\ txns[i].is_recurring = FALSE

\* does the iteration for this template reach one of the find_one calls
LooksUp(transaction, today) ==
    LET start_date == DateOf(transaction.recurring_start_date)
    IN  /\ transaction.recurring_start_date /= NoDate
        /\ \/ transaction.frequency = "monthly" /\ MonthlyDue(today, start_date)
           \/ transaction.frequency = "yearly" /\ YearlyDue(today, start_date)

\* mutant: the chain ends in an else that treats any other frequency as weekly
ShouldCreate_elseWeekly(txns, transaction, today) ==
    LET start_date == IF transaction.recurring_start_date = NoDate THEN today
                      ELSE DateOf(transaction.recurring_start_date)
    IN  \/ /\ transaction.frequency = "monthly"
           /\ transaction.recurring_start_date /= NoDate
           /\ MonthlyDue(today, start_date)
           /\ ~ExistingMonthly(txns, transaction, today)
        \/ /\ transaction.frequency = "yearly"
           /\ transaction.recurring_start_date /= NoDate
           /\ YearlyDue(today, start_date)
           /\ ~ExistingYearly(txns, transaction, today)
        \/ /\ transaction.frequency \notin {"monthly", "yearly"}
           /\ WeeklyDue(today, start_date)

\* should_create at the end of the if/elif chain
ShouldCreate(txns, transaction, today) ==
    LET start_date == DateOf(transaction.recurring_start_date)
    IN  /\ transaction.recurring_start_date /= NoDate
        /\ \/ /\ transaction.frequency = "weekly"
              /\ WeeklyDue(today, start_date)
           \/ /\ transaction.frequency = "monthly"
              /\ MonthlyDue(today, start_date)
              /\ ~ExistingMonthly(txns, transaction, today)
           \/ /\ transaction.frequency = "yearly"
              /\ YearlyDue(today, start_date)
              /\ ~ExistingYearly(txns, transaction, today)

\* mutant: the instance keeps the template's recurrence fields
NewInstance_recurring(id, transaction, next_date, created_at) ==
    [id |-> id, user_id |-> transaction.user_id, type |-> transaction.type,
     amount |-> transaction.amount,
     description |-> transaction.description \o RecurringSuffix,
     category |-> transaction.category, date |-> Midnight(next_date),
     is_recurring |-> TRUE, frequency |-> transaction.frequency,
     recurring_start_date |-> transaction.recurring_start_date,
     created_at |-> created_at]

\* mutant: the instance is dated at the clock's reading, not at midnight
NewInstance_datedNow(id, transaction, next_date, created_at) ==
    [id |-> id, user_id |-> transaction.user_id, type |-> transaction.type,
     amount |-> transaction.amount,
     description |-> transaction.description \o RecurringSuffix,
     category |-> transaction.category, date |-> created_at,
     is_recurring |-> FALSE, frequency |-> NoFreq, recurring_start_date |-> NoDate,
     created_at |-> created_at]

\* new_transaction = Transaction(...): the materialized instance
NewInstance(id, transaction, next_date, created_at) ==
    [id |-> id, user_id |-> transaction.user_id, type |-> transaction.type,
     amount |-> transaction.amount,
     description |-> transaction.description \o RecurringSuffix,
     category |-> transaction.category, date |-> Midnight(next_date),
     is_recurring |-> FALSE, frequency |-> NoFreq, recurring_start_date |-> NoDate,
     created_at |-> created_at]

\* One iteration of the for loop. st carries the collection, the id source, the
\* running processed_count, the number of store operations issued so far and
\* whether one of them raised; failAt is the store operation that raises (0: none).
ProcessTemplate(st, transaction, today, created_at, failAt) ==
    LET looks == LooksUp(transaction, today)
        ops1 == IF looks THEN st.ops + 1 ELSE st.ops
        should_create == ShouldCreate(st.txns, transaction, today)
        next_date == today
        ops2 == ops1 + 1
    IN  IF looks /\ ops1 = failAt
        THEN [st EXCEPT !.ops = ops1, !.failed = TRUE]
        ELSE IF ~should_create
        THEN [st EXCEPT !.ops = ops1]
        ELSE IF ops2 = failAt
        THEN [st EXCEPT !.ops = ops2, !.failed = TRUE]
        ELSE [st EXCEPT !.txns = Append(st.txns, NewInstance(st.nid, transaction, next_date, created_at)),
                        !.nid = st.nid + 1,
                        !.count = st.count + 1,
                        !.ops = ops2]

\* for recurring_transaction in recurring_transactions: ... (an exception leaves the loop)
RECURSIVE ProcessLoop(_, _, _, _, _)
ProcessLoop(st, queue, today, created_at, failAt) ==
    IF queue = <<>> \/ st.failed
    THEN st
    ELSE ProcessLoop(ProcessTemplate(st, Head(queue), today, created_at, failAt),
                     Tail(queue), today, created_at, failAt)

\* db.transactions.find({"is_recurring": True}).to_list(1000)
RecurringTransactions(txns) == ToList(SelectSeq(txns, LAMBDA t : t.is_recurring), PageSize)

\* the whole handler run against a collection: the find is store operation 1
RunProcessRecurring(txns, nid, clock, failAt) ==
    LET st0 == [txns |-> txns, nid |-> nid, count |-> 0, ops |-> 1, failed |-> failAt = 1]
    IN  ProcessLoop(st0, RecurringTransactions(txns), DateOf(clock), clock, failAt)

\* POST /transactions/process-recurring (no authentication)
process_recurring_transactions(failAt) ==
    LET st == RunProcessRecurring(transactions, nextId, now, failAt)
    IN  /\ transactions' = st.txns
        /\ nextId' = st.nid
        /\ response' = IF st.failed
                       THEN Resp("process_recurring", "", 500, 0, <<>>, 0)
                       ELSE Resp("process_recurring", "", 200, 0, <<>>, st.count)
        /\ UNCHANGED <<now, assets, liabilities, budgets, savings_goals, users, registering, processing, updating>>

(***************************************************************************)
(* The materializer between its awaits. An invocation gives up control at  *)
(* the find of line 312, at each find_one and at each insert_one; the      *)
(* requests of other clients and other invocations run in between.         *)
(* processing[p] holds invocation p's locals; read is the collection as    *)
(* its latest find_one saw it.                                             *)
(***************************************************************************)

\* today = datetime.now().date(); recurring_transactions = await find(...).to_list(1000)
pr_find(p) ==
    /\ processing[p].pc = "idle"
    /\ processing' = [processing EXCEPT ![p] =
                         [pc |-> "loop", today |-> DateOf(now),
                          queue |-> RecurringTransactions(transactions),
                          processed_count |-> 0, read |-> <<>>]]
    /\ UNCHANGED <<now, nextId, transactions, assets, liabilities, budgets, savings_goals,
                   response, users, registering, updating>>

\* one iteration up to its insert_one: the date tests and, in the monthly and
\* yearly branches, the find_one against the collection as it is now
pr_lookup(p) ==
    LET transaction == Head(processing[p].queue)
        today == processing[p].today
        looks == LooksUp(transaction, today)
        should_create == ShouldCreate(transactions, transaction, today)
    IN  /\ processing[p].pc = "loop"
        /\ processing[p].queue /= <<>>
        /\ processing' = [processing EXCEPT ![p] =
                             [@ EXCEPT !.pc = IF should_create THEN "insert" ELSE "loop",
                                       !.queue = IF should_create THEN @ ELSE Tail(@),
                                       !.read = IF looks THEN transactions ELSE @]]
        /\ UNCHANGED <<now, nextId, transactions, assets, liabilities, budgets, savings_goals,
                       response, users, registering, updating>>

\* mutant: the insert looks the collection up again and skips the template if
\* the lookup now finds a transaction
pr_insert_rechecked(p) ==
    LET transaction == Head(processing[p].queue)
        today == processing[p].today
    IN  /\ processing[p].pc = "insert"
        /\ IF ShouldCreate(transactions, transaction, today)
           THEN /\ transactions' = Append(transactions, NewInstance(nextId, transaction, today, now))
                /\ nextId' = nextId + 1
                /\ processing' = [processing EXCEPT ![p] =
                                     [@ EXCEPT !.pc = "loop", !.queue = Tail(@),
                                               !.processed_count = @ + 1]]
           ELSE /\ processing' = [processing EXCEPT ![p] =
                                     [@ EXCEPT !.pc = "loop", !.queue = Tail(@)]]
                /\ UNCHANGED <<transactions, nextId>>
        /\ UNCHANGED <<now, assets, liabilities, budgets, savings_goals,
                       response, users, registering, updating>>

\* await db.transactions.insert_one(new_transaction.dict()); processed_count += 1
pr_insert(p) ==
    LET transaction == Head(processing[p].queue)
        today == processing[p].today
    IN  /\ processing[p].pc = "insert"
        /\ transactions' = Append(transactions, NewInstance(nextId, transaction, today, now))
        /\ nextId' = nextId + 1
        /\ processing' = [processing EXCEPT ![p] =
                             [@ EXCEPT !.pc = "loop", !.queue = Tail(@),
                                       !.processed_count = @ + 1]]
        /\ UNCHANGED <<now, assets, liabilities, budgets, savings_goals,
                       response, users, registering, updating>>

\* the loop is over: return {"message": f"Processed {processed_count} ..."}
pr_return(p) ==
    /\ processing[p].pc = "loop"
    /\ processing[p].queue = <<>>
    /\ processing' = [processing EXCEPT ![p].pc = "done"]
    /\ response' = Resp("process_recurring", "", 200, 0, <<>>, processing[p].processed_count)
    /\ UNCHANGED <<now, nextId, transactions, assets, liabilities, budgets, savings_goals,
                   users, registering, updating>>

(***************************************************************************)
(* Auth routes. A register request reads db.users (find_one) and, after    *)
(* the await, writes it (insert_one): other requests run in between.       *)
(***************************************************************************)

\* hash_password: the bcrypt hash of the password (the salt is left out)
hash_password(password) == <<"bcrypt", password>>

\* User(email=..., password_hash=..., name=...) with a fresh id
MkUser(id, email, password_hash, name, created_at) ==
    [id |-> id, email |-> email, password_hash |-> password_hash, name |-> name,
     created_at |-> created_at]

\* UserResponse(**user.dict())
UserResponse(user) ==
    [id |-> user.id, email |-> user.email, name |-> user.name, created_at |-> user.created_at]

\* a register request that has not started
NotRegistering ==
    [pc |-> "idle", user_data |-> [email |-> "", password |-> "", name |-> ""],
     existing_user |-> FALSE]

\* db.users.find_one({"email": email}) finds a document
ExistingUser(coll, email) == \E i \in 1..Len(coll) : coll[i].email = email

\* POST /register, up to the first await: existing_user = find_one({"email": ...})
register_find(r, user_data) ==
    /\ registering[r].pc = "idle"
    /\ registering' = [registering EXCEPT ![r] =
                          [pc |-> "found", user_data |-> user_data,
                           existing_user |-> ExistingUser(users, user_data.email)]]
    /\ UNCHANGED <<now, nextId, transactions, assets, liabilities, budgets, savings_goals,
                   response, users, processing, updating>>

\* POST /register, the rest: 400 if a user was found, otherwise insert_one and answer
register_insert(r) ==
    LET user_data == registering[r].user_data
        user == MkUser(nextId, user_data.email, hash_password(user_data.password),
                       user_data.name, now)
    IN  /\ registering[r].pc = "found"
        /\ registering' = [registering EXCEPT ![r].pc = "done"]
        /\ IF registering[r].existing_user
           THEN /\ response' = Resp("register", "", 400, 0, <<>>, 0)
                /\ UNCHANGED <<users, nextId>>
           ELSE /\ users' = Append(users, user)
                /\ nextId' = nextId + 1
                /\ response' = Resp("register", "", 200, user.id, <<UserResponse(user)>>, 0)
        /\ UNCHANGED <<now, transactions, assets, liabilities, budgets, savings_goals,
                       processing, updating>>

(***************************************************************************)
(* Transaction routes.                                                     *)
(***************************************************************************)

\* POST /transactions
create_transaction(user, transaction_data) ==
    LET transaction == MkTransaction(nextId, user, transaction_data, now)
    IN  /\ transactions' = Append(transactions, transaction)
        /\ nextId' = nextId + 1
        /\ response' = Resp("create_transaction", user, 200, transaction.id, <<transaction>>, 0)
        /\ UNCHANGED <<now, assets, liabilities, budgets, savings_goals, users, registering, processing, updating>>

\* insert r into a list already sorted by date, newest first, after its equals
RECURSIVE InsertByDateDesc(_, _)
InsertByDateDesc(r, s) ==
    IF s = <<>> THEN <<r>>
    ELSE IF Head(s).date >= r.date THEN <<Head(s)>> \o InsertByDateDesc(r, Tail(s))
    ELSE <<r>> \o s

\* cursor.sort("date", -1)
RECURSIVE SortByDateDesc(_)
SortByDateDesc(s) ==
    IF s = <<>> THEN <<>>
    ELSE InsertByDateDesc(s[Len(s)], SortByDateDesc(SubSeq(s, 1, Len(s) - 1)))

\* the query filter of get_transactions; NoDate / NoFreq stand for an absent parameter
TransactionFilter(t, user, start_date, end_date, category) ==
    /\ t.user_id = user
    /\ (start_date /= NoDate => t.date >= start_date)
    /\ (end_date /= NoDate => t.date <= end_date)
    /\ (category /= NoFreq => t.category = category)

\* the list GET /transactions returns (requests are drawn without search_query)
get_transactions(txns, user, start_date, end_date, category) ==
    ToList(SortByDateDesc(SelectSeq(txns,
               LAMBDA t : TransactionFilter(t, user, start_date, end_date, category))),
           PageSize)

\* GET /transactions
list_transactions(user, start_date, end_date, category) ==
    /\ response' = Resp("get_transactions", user, 200, 0,
                        get_transactions(transactions, user, start_date, end_date, category), 0)
    /\ UNCHANGED <<now, nextId, transactions, assets, liabilities, budgets, savings_goals, users, registering, processing, updating>>

\* mutant: the delete filter leaves out user_id
DeleteOne_anyOwner(coll, id, user) ==
    LET hits == {i \in 1..Len(coll) : coll[i].id = id}
    IN  IF hits = {} THEN coll
        ELSE LET k == CHOOSE i \in hits : \A j \in hits : i <= j
             IN  SubSeq(coll, 1, k - 1) \o SubSeq(coll, k + 1, Len(coll))

\* mutant: the delete removes nothing
DeleteOne_nothing(coll, id, user) == coll

\* delete_one({"id": id, "user_id": user}): the collection without the first match
DeleteOne(coll, id, user) ==
    LET hits == {i \in 1..Len(coll) : coll[i].id = id /\ coll[i].user_id = user}
    IN  IF hits = {} THEN coll
        ELSE LET k == CHOOSE i \in hits : \A j \in hits : i <= j
             IN  SubSeq(coll, 1, k - 1) \o SubSeq(coll, k + 1, Len(coll))

\* result.deleted_count / result.matched_count of a one-document operation
MatchCount(coll, id, user) ==
    IF \E i \in 1..Len(coll) : coll[i].id = id /\ coll[i].user_id = user THEN 1 ELSE 0

\* mutant: a delete naming another user's record is answered 403
delete_response_forbidden(op, coll, id, user) ==
    IF MatchCount(coll, id, user) /= 0 THEN Resp(op, user, 200, id, <<>>, 0)
    ELSE IF \E i \in 1..Len(coll) : coll[i].id = id THEN Resp(op, user, 403, id, <<>>, 0)
    ELSE Resp(op, user, 404, id, <<>>, 0)

\* what a delete route answers: 404 "... not found" if delete_one deleted nothing
delete_response(op, coll, id, user) ==
    IF MatchCount(coll, id, user) = 0
    THEN Resp(op, user, 404, id, <<>>, 0)
    ELSE Resp(op, user, 200, id, <<>>, 0)

\* DELETE /transactions/{transaction_id}
delete_transaction(user, transaction_id) ==
    /\ transactions' = DeleteOne(transactions, transaction_id, user)
    /\ response' = delete_response("delete_transaction", transactions, transaction_id, user)
    /\ UNCHANGED <<now, nextId, assets, liabilities, budgets, savings_goals, users, registering, processing, updating>>

\* mutant: update_one with upsert=True
UpdateOne_upsert(coll, id, user, update_data) ==
    IF \E i \in 1..Len(coll) : coll[i].id = id /\ coll[i].user_id = user THEN coll
    ELSE Append(coll, [f \in DOMAIN update_data \cup {"id", "user_id"} |->
                         IF f = "id" THEN id ELSE IF f = "user_id" THEN user
                         ELSE update_data[f]])

\* update_one(filter, {"$set": update_data}): the first match with the fields
\* of update_data overwritten
UpdateOne(coll, id, user, update_data) ==
    LET hits == {i \in 1..Len(coll) : coll[i].id = id /\ coll[i].user_id = user}
    IN  IF hits = {} THEN coll
        ELSE LET k == CHOOSE i \in hits : \A j \in hits : i <= j
             IN  [coll EXCEPT ![k] = [f \in DOMAIN coll[k] |->
                                         IF f \in DOMAIN update_data THEN update_data[f]
                                         ELSE coll[k][f]]]

\* mutant: the read-back filter leaves out the id
FindOne_anyId(coll, id, user) ==
    LET hits == {i \in 1..Len(coll) : coll[i].user_id = user}
    IN  coll[CHOOSE i \in hits : \A j \in hits : i <= j]

\* find_one({"id": id, "user_id": user}) when a document matches
FindOne(coll, id, user) ==
    LET hits == {i \in 1..Len(coll) : coll[i].id = id /\ coll[i].user_id = user}
    IN  coll[CHOOSE i \in hits : \A j \in hits : i <= j]

\* what an update route answers: 404 "... not found" if update_one matched nothing,
\* otherwise the document read back from the collection as written
update_response(op, coll, written, id, user) ==
    IF MatchCount(coll, id, user) = 0
    THEN Resp(op, user, 404, id, <<>>, 0)
    ELSE Resp(op, user, 200, id, <<FindOne(written, id, user)>>, 0)

(***************************************************************************)
(* Asset routes.                                                                 *)
(***************************************************************************)

\* POST: Asset(user_id=current_user.id, **asset_data.dict())
create_asset(user, asset_data) ==
    LET asset == [id |-> nextId, user_id |-> user, description |-> asset_data.description, current_value |-> asset_data.current_value, created_at |-> now, updated_at |-> now]
    IN  /\ assets' = Append(assets, asset)
        /\ nextId' = nextId + 1
        /\ response' = Resp("create_asset", user, 200, asset.id, <<asset>>, 0)
        /\ UNCHANGED <<now, transactions, liabilities, budgets, savings_goals, users, registering, processing, updating>>

\* the list GET returns: find({"user_id": current_user.id}).to_list(1000)
get_assets(coll, user) == ToList(SelectSeq(coll, LAMBDA r : r.user_id = user), PageSize)

\* GET
list_assets(user) ==
    /\ response' = Resp("get_assets", user, 200, 0, get_assets(assets, user), 0)
    /\ UNCHANGED <<now, nextId, transactions, assets, liabilities, budgets, savings_goals, users, registering, processing, updating>>

\* PUT: update_one then find_one, both on {"id": asset_id, "user_id": current_user.id}
update_asset(user, asset_id, asset_data) ==
    LET update_data == [description |-> asset_data.description, current_value |-> asset_data.current_value, updated_at |-> now]
        written == UpdateOne(assets, asset_id, user, update_data)
    IN  /\ assets' = written
        /\ response' = update_response("update_asset", assets, written, asset_id, user)
        /\ UNCHANGED <<now, nextId, transactions, liabilities, budgets, savings_goals, users, registering, processing, updating>>

\* DELETE
delete_asset(user, asset_id) ==
    /\ assets' = DeleteOne(assets, asset_id, user)
    /\ response' = delete_response("delete_asset", assets, asset_id, user)
    /\ UNCHANGED <<now, nextId, transactions, liabilities, budgets, savings_goals, users, registering, processing, updating>>

(***************************************************************************)
(* Liability routes.                                                                 *)
(***************************************************************************)

\* POST: Liability(user_id=current_user.id, **liability_data.dict())
create_liability(user, liability_data) ==
    LET liability == [id |-> nextId, user_id |-> user, description |-> liability_data.description, amount_owed |-> liability_data.amount_owed, created_at |-> now, updated_at |-> now]
    IN  /\ liabilities' = Append(liabilities, liability)
        /\ nextId' = nextId + 1
        /\ response' = Resp("create_liability", user, 200, liability.id, <<liability>>, 0)
        /\ UNCHANGED <<now, transactions, assets, budgets, savings_goals, users, registering, processing, updating>>

\* the list GET returns: find({"user_id": current_user.id}).to_list(1000)
get_liabilities(coll, user) == ToList(SelectSeq(coll, LAMBDA r : r.user_id = user), PageSize)

\* GET
list_liabilities(user) ==
    /\ response' = Resp("get_liabilities", user, 200, 0, get_liabilities(liabilities, user), 0)
    /\ UNCHANGED <<now, nextId, transactions, assets, liabilities, budgets, savings_goals, users, registering, processing, updating>>

\* PUT: update_one then find_one, both on {"id": liability_id, "user_id": current_user.id}
update_liability(user, liability_id, liability_data) ==
    LET update_data == [description |-> liability_data.description, amount_owed |-> liability_data.amount_owed, updated_at |-> now]
        written == UpdateOne(liabilities, liability_id, user, update_data)
    IN  /\ liabilities' = written
        /\ response' = update_response("update_liability", liabilities, written, liability_id, user)
        /\ UNCHANGED <<now, nextId, transactions, assets, budgets, savings_goals, users, registering, processing, updating>>

\* DELETE
delete_liability(user, liability_id) ==
    /\ liabilities' = DeleteOne(liabilities, liability_id, user)
    /\ response' = delete_response("delete_liability", liabilities, liability_id, user)
    /\ UNCHANGED <<now, nextId, transactions, assets, budgets, savings_goals, users, registering, processing, updating>>

(***************************************************************************)
(* Budget routes.                                                                 *)
(***************************************************************************)

\* POST: Budget(user_id=current_user.id, **budget_data.dict())
create_budget(user, budget_data) ==
    LET budget == [id |-> nextId, user_id |-> user, month |-> budget_data.month, year |-> budget_data.year, category |-> budget_data.category, budget_amount |-> budget_data.budget_amount, created_at |-> now]
    IN  /\ budgets' = Append(budgets, budget)
        /\ nextId' = nextId + 1
        /\ response' = Resp("create_budget", user, 200, budget.id, <<budget>>, 0)
        /\ UNCHANGED <<now, transactions, assets, liabilities, savings_goals, users, registering, processing, updating>>

\* the list GET returns: find({"user_id": current_user.id}).to_list(1000)
get_budgets(coll, user) == ToList(SelectSeq(coll, LAMBDA r : r.user_id = user), PageSize)

\* GET
list_budgets(user) ==
    /\ response' = Resp("get_budgets", user, 200, 0, get_budgets(budgets, user), 0)
    /\ UNCHANGED <<now, nextId, transactions, assets, liabilities, budgets, savings_goals, users, registering, processing, updating>>

(***************************************************************************)
(* Savings goal routes.                                                                 *)
(***************************************************************************)

\* POST: SavingsGoal(user_id=current_user.id, **goal_data.dict())
create_savings_goal(user, goal_data) ==
    LET goal == [id |-> nextId, user_id |-> user, goal_name |-> goal_data.goal_name, target_amount |-> goal_data.target_amount, current_amount |-> goal_data.current_amount, created_at |-> now, updated_at |-> now]
    IN  /\ savings_goals' = Append(savings_goals, goal)
        /\ nextId' = nextId + 1
        /\ response' = Resp("create_savings_goal", user, 200, goal.id, <<goal>>, 0)
        /\ UNCHANGED <<now, transactions, assets, liabilities, budgets, users, registering, processing, updating>>

\* the list GET returns: find({"user_id": current_user.id}).to_list(1000)
get_savings_goals(coll, user) == ToList(SelectSeq(coll, LAMBDA r : r.user_id = user), PageSize)

\* GET
list_savings_goals(user) ==
    /\ response' = Resp("get_savings_goals", user, 200, 0, get_savings_goals(savings_goals, user), 0)
    /\ UNCHANGED <<now, nextId, transactions, assets, liabilities, budgets, savings_goals, users, registering, processing, updating>>

\* PUT: update_one then find_one, both on {"id": goal_id, "user_id": current_user.id}
update_savings_goal(user, goal_id, goal_data) ==
    LET update_data == [goal_name |-> goal_data.goal_name, target_amount |-> goal_data.target_amount, current_amount |-> goal_data.current_amount, updated_at |-> now]
        written == UpdateOne(savings_goals, goal_id, user, update_data)
    IN  /\ savings_goals' = written
        /\ response' = update_response("update_savings_goal", savings_goals, written, goal_id, user)
        /\ UNCHANGED <<now, nextId, transactions, assets, liabilities, budgets, users, registering, processing, updating>>

(***************************************************************************)
(* The update handlers between their awaits. A PUT gives up control at      *)
(* update_one and again at find_one; the requests of other clients run in   *)
(* between. updating[q] holds request q's locals.                           *)
(***************************************************************************)

\* request q after its update_one: answered 404 if nothing matched, otherwise
\* on its way to the read-back
AfterWrite(op, coll, id, user, update_data) ==
    [pc |-> IF MatchCount(coll, id, user) = 0 THEN "done" ELSE "written",
     op |-> op, user |-> user, id |-> id,
     matched_count |-> MatchCount(coll, id, user), update_data |-> update_data]

\* what update_one's caller answers right away, if anything
write_response(op, coll, id, user) ==
    IF MatchCount(coll, id, user) = 0 THEN Resp(op, user, 404, id, <<>>, 0) ELSE response

\* mutant: a read-back that finds no document is answered 404
read_back_response_notFound(op, coll, id, user) ==
    IF MatchCount(coll, id, user) = 0
    THEN Resp(op, user, 404, id, <<>>, 0)
    ELSE Resp(op, user, 200, id, <<FindOne(coll, id, user)>>, 0)

\* return Model(**find_one(...)): the document as stored now; find_one returns
\* None if it is gone, Model(**None) raises TypeError and the request ends in
\* 500 Internal Server Error
read_back_response(op, coll, id, user) ==
    IF MatchCount(coll, id, user) = 0
    THEN Resp(op, user, 500, id, <<>>, 0)
    ELSE Resp(op, user, 200, id, <<FindOne(coll, id, user)>>, 0)

\* PUT, up to the second await: update_one, and 404 if it matched nothing
update_asset_write(q, user, asset_id, asset_data) ==
    LET update_data == [description |-> asset_data.description, current_value |-> asset_data.current_value, updated_at |-> now]
    IN  /\ updating[q].pc = "idle"
        /\ assets' = UpdateOne(assets, asset_id, user, update_data)
        /\ updating' = [updating EXCEPT ![q] =
                           AfterWrite("update_asset", assets, asset_id, user, update_data)]
        /\ response' = write_response("update_asset", assets, asset_id, user)
        /\ UNCHANGED <<now, nextId, transactions, liabilities, budgets, savings_goals, users, registering, processing>>

\* PUT, the rest: find_one and the answer built from it
update_asset_read(q) ==
    /\ updating[q].pc = "written"
    /\ updating[q].op = "update_asset"
    /\ updating' = [updating EXCEPT ![q].pc = "done"]
    /\ response' = read_back_response("update_asset", assets, updating[q].id, updating[q].user)
    /\ UNCHANGED <<now, nextId, transactions, assets, liabilities, budgets, savings_goals, users, registering, processing>>

\* PUT, up to the second await: update_one, and 404 if it matched nothing
update_liability_write(q, user, liability_id, liability_data) ==
    LET update_data == [description |-> liability_data.description, amount_owed |-> liability_data.amount_owed, updated_at |-> now]
    IN  /\ updating[q].pc = "idle"
        /\ liabilities' = UpdateOne(liabilities, liability_id, user, update_data)
        /\ updating' = [updating EXCEPT ![q] =
                           AfterWrite("update_liability", liabilities, liability_id, user, update_data)]
        /\ response' = write_response("update_liability", liabilities, liability_id, user)
        /\ UNCHANGED <<now, nextId, transactions, assets, budgets, savings_goals, users, registering, processing>>

\* PUT, the rest: find_one and the answer built from it
update_liability_read(q) ==
    /\ updating[q].pc = "written"
    /\ updating[q].op = "update_liability"
    /\ updating' = [updating EXCEPT ![q].pc = "done"]
    /\ response' = read_back_response("update_liability", liabilities, updating[q].id, updating[q].user)
    /\ UNCHANGED <<now, nextId, transactions, assets, liabilities, budgets, savings_goals, users, registering, processing>>

\* PUT, up to the second await: update_one, and 404 if it matched nothing
update_savings_goal_write(q, user, goal_id, goal_data) ==
    LET update_data == [goal_name |-> goal_data.goal_name, target_amount |-> goal_data.target_amount, current_amount |-> goal_data.current_amount, updated_at |-> now]
    IN  /\ updating[q].pc = "idle"
        /\ savings_goals' = UpdateOne(savings_goals, goal_id, user, update_data)
        /\ updating' = [updating EXCEPT ![q] =
                           AfterWrite("update_savings_goal", savings_goals, goal_id, user, update_data)]
        /\ response' = write_response("update_savings_goal", savings_goals, goal_id, user)
        /\ UNCHANGED <<now, nextId, transactions, assets, liabilities, budgets, users, registering, processing>>

\* PUT, the rest: find_one and the answer built from it
update_savings_goal_read(q) ==
    /\ updating[q].pc = "written"
    /\ updating[q].op = "update_savings_goal"
    /\ updating' = [updating EXCEPT ![q].pc = "done"]
    /\ response' = read_back_response("update_savings_goal", savings_goals, updating[q].id, updating[q].user)
    /\ UNCHANGED <<now, nextId, transactions, assets, liabilities, budgets, savings_goals, users, registering, processing>>

(***************************************************************************)
(* Dashboard analytics.                                                    *)
(***************************************************************************)

\* find({"user_id": ..., "$expr": month/year of date = current month/year}).to_list(1000)
MonthTransactions(txns, user, clock) ==
    ToList(SelectSeq(txns, LAMBDA t : /\ t.user_id = user
                                      /\ MonthOf(DateOf(t.date)) = MonthOf(DateOf(clock))
                                      /\ YearOf(DateOf(t.date)) = YearOf(DateOf(clock))),
           PageSize)

\* sum(t["amount"] for t in ts if t["type"] == type)
RECURSIVE SumAmount(_, _)
SumAmount(ts, type) ==
    IF ts = <<>> THEN 0
    ELSE (IF Head(ts).type = type THEN Head(ts).amount ELSE 0) + SumAmount(Tail(ts), type)

\* mutant: the breakdown takes in every transaction type
ExpenseBreakdown_allTypes(ts) ==
    LET cats == {ts[i].category : i \in 1..Len(ts)}
    IN  [c \in cats |->
           SumSeq([i \in 1..Len(ts) |-> IF ts[i].category = c THEN ts[i].amount ELSE 0])]

\* expense_breakdown: category -> summed expense amount
ExpenseBreakdown(ts) ==
    LET expenses == SelectSeq(ts, LAMBDA t : t.type = "expense")
        cats == {expenses[i].category : i \in 1..Len(expenses)}
    IN  [c \in cats |-> SumAmount(SelectSeq(expenses, LAMBDA t : t.category = c), "expense")]

\* mutant: net worth leaves the liabilities out
get_dashboard_summary_assetsOnly(user) ==
    LET ts == MonthTransactions(transactions, user, now)
        monthly_income == SumAmount(ts, "income")
        monthly_expenses == SumAmount(ts, "expense")
        total_assets == LET rs == get_assets(assets, user)
                        IN  SumSeq([i \in 1..Len(rs) |-> rs[i].current_value])
        total_liabilities == LET rs == get_liabilities(liabilities, user)
                             IN  SumSeq([i \in 1..Len(rs) |-> rs[i].amount_owed])
    IN  [net_worth |-> total_assets,
         monthly_income |-> monthly_income,
         monthly_expenses |-> monthly_expenses,
         cash_flow |-> monthly_income - monthly_expenses,
         total_assets |-> total_assets,
         total_liabilities |-> total_liabilities,
         expense_breakdown |-> ExpenseBreakdown(ts)]

\* GET /dashboard/summary: the body it returns
get_dashboard_summary(user) ==
    LET ts == MonthTransactions(transactions, user, now)
        monthly_income == SumAmount(ts, "income")
        monthly_expenses == SumAmount(ts, "expense")
        total_assets == LET rs == get_assets(assets, user)
                        IN  SumSeq([i \in 1..Len(rs) |-> rs[i].current_value])
        total_liabilities == LET rs == get_liabilities(liabilities, user)
                             IN  SumSeq([i \in 1..Len(rs) |-> rs[i].amount_owed])
    IN  [net_worth |-> total_assets - total_liabilities,
         monthly_income |-> monthly_income,
         monthly_expenses |-> monthly_expenses,
         cash_flow |-> monthly_income - monthly_expenses,
         total_assets |-> total_assets,
         total_liabilities |-> total_liabilities,
         expense_breakdown |-> ExpenseBreakdown(ts)]

\* GET /dashboard/summary
dashboard_summary(user) ==
    /\ response' = Resp("get_dashboard_summary", user, 200, 0, <<get_dashboard_summary(user)>>, 0)
    /\ UNCHANGED <<now, nextId, transactions, assets, liabilities, budgets, savings_goals,
                   users, registering, processing, updating>>

(***************************************************************************)
(* Reports.                                                                *)
(***************************************************************************)

ReportMonths == 12     \* for i in range(12)
StepDays == 30         \* timedelta(days=i*30)

\* datetime.replace(day=1): the first of the month, the time of day kept
ReplaceDay1(dt) ==
    MkDateTime(YearOf(DateOf(dt)), MonthOf(DateOf(dt)), 1) + (dt % TicksPerDay)

\* mutant: the first of the calendar month i months back
TargetDate_calendar(clock, i) ==
    LET y == YearOf(DateOf(clock))
        m == MonthOf(DateOf(clock))
        k == y * 12 + (m - 1) - i
    IN  MkDateTime(k \div 12, (k % 12) + 1, 1) + (clock % TicksPerDay)

\* target_date = datetime.now().replace(day=1) - timedelta(days=i*30)
TargetDate(clock, i) == ReplaceDay1(clock) - i * StepDays * TicksPerDay

\* one entry of the cash-flow report; month stands for strftime("%Y-%m"), as <<year, month>>
CashflowEntry(txns, user, target_date) ==
    LET ts == MonthTransactions(txns, user, target_date)
        income == SumAmount(ts, "income")
        expenses == SumAmount(ts, "expense")
    IN  [month |-> <<YearOf(DateOf(target_date)), MonthOf(DateOf(target_date))>>,
         income |-> income, expenses |-> expenses, net |-> income - expenses]

\* mutant: the entries are returned newest first
Reversed_not(s) == s

\* list(reversed(s))
Reversed(s) == [i \in 1..Len(s) |-> s[Len(s) + 1 - i]]

\* GET /reports/cashflow: the body it returns
get_cashflow_report(user) ==
    Reversed([k \in 1..ReportMonths |-> CashflowEntry(transactions, user, TargetDate(now, k - 1))])

\* GET /reports/cashflow
cashflow_report(user) ==
    /\ response' = Resp("get_cashflow_report", user, 200, 0, get_cashflow_report(user), 0)
    /\ UNCHANGED <<now, nextId, transactions, assets, liabilities, budgets, savings_goals,
                   users, registering, processing, updating>>

\* find({"user_id", "type": "expense", "date": {"$gte": start, "$lte": end}}).to_list(1000)
SpendingQuery(txns, user, start, end) ==
    ToList(SelectSeq(txns, LAMBDA t : /\ t.user_id = user
                                      /\ t.type = "expense"
                                      /\ t.date >= start
                                      /\ t.date <= end),
           PageSize)

\* category_totals: the dict category -> summed amount, as its items in insertion order
RECURSIVE CategoryTotals(_, _)
CategoryTotals(ts, category_totals) ==
    IF ts = <<>> THEN category_totals
    ELSE LET transaction == Head(ts)
             at == {i \in 1..Len(category_totals) :
                      category_totals[i].category = transaction.category}
         IN  CategoryTotals(Tail(ts),
                 IF at = {}
                 THEN Append(category_totals,
                             [category |-> transaction.category, amount |-> transaction.amount])
                 ELSE LET i == CHOOSE i \in at : TRUE
                      IN  [category_totals EXCEPT ![i].amount = @ + transaction.amount])

\* Floating-point quotients are kept to FloatScale-ths, rounded to nearest: a
\* percentage is a number of FloatScale-ths of a percent.
FloatScale == 100000

FloatDiv(a, b) == (2 * a * FloatScale + b) \div (2 * b)

\* mutant: the quotient is cut to whole hundredths
Percentage_truncated(amount, total) == ((amount * 100) \div total) * (FloatScale \div 100) * 100

\* amount / sum(category_totals.values()) * 100
Percentage(amount, total) == FloatDiv(amount, total) * 100

\* sorted(results, key=lambda x: x["amount"], reverse=True): stable, equal amounts
\* keep their order
RECURSIVE SortByAmountDesc(_)
SortByAmountDesc(s) ==
    IF s = <<>> THEN <<>>
    ELSE LET rest == SortByAmountDesc(Tail(s))
             before == {i \in 0..Len(rest) : \A j \in 1..i : rest[j].amount > Head(s).amount}
             k == CHOOSE i \in before : \A j \in before : j <= i
         IN  SubSeq(rest, 1, k) \o <<Head(s)>> \o SubSeq(rest, k + 1, Len(rest))

\* GET /reports/spending: a zero sum under a non-empty category_totals raises
\* ZeroDivisionError, answered 500
get_spending_report(user, start_date, end_date) ==
    LET start == IF start_date = NoDate THEN ReplaceDay1(now) ELSE start_date
        end == IF end_date = NoDate THEN now ELSE end_date
        ts == SpendingQuery(transactions, user, start, end)
        category_totals == CategoryTotals(ts, <<>>)
        total == SumSeq([i \in 1..Len(category_totals) |-> category_totals[i].amount])
        results == [i \in 1..Len(category_totals) |->
                      [category |-> category_totals[i].category,
                       amount |-> category_totals[i].amount,
                       percentage |-> Percentage(category_totals[i].amount, total)]]
    IN  /\ response' =
             IF category_totals /= <<>> /\ total = 0
             THEN Resp("get_spending_report", user, 500, 0, <<>>, 0)
             ELSE Resp("get_spending_report", user, 200, 0,
                       <<[total_spent |-> total,
                          categories |-> SortByAmountDesc(results),
                          date_range |-> [start |-> start, end |-> end]]>>, 0)
        /\ UNCHANGED <<now, nextId, transactions, assets, liabilities, budgets, savings_goals,
                       users, registering, processing, updating>>

(***************************************************************************)
(* The router. app.include_router(api_router) serves the routes the        *)
(* decorators of server.py register and no other: a request that matches   *)
(* none of them is answered 404 before any handler or dependency runs.     *)
(***************************************************************************)

\* the routes registered on api_router: <<method, path>>
Routes ==
    {<<"POST", "/register">>, <<"POST", "/login">>, <<"GET", "/me">>,
     <<"POST", "/transactions">>, <<"GET", "/transactions">>,
     <<"DELETE", "/transactions/{transaction_id}">>,
     <<"POST", "/transactions/process-recurring">>,
     <<"POST", "/assets">>, <<"GET", "/assets">>,
     <<"PUT", "/assets/{asset_id}">>, <<"DELETE", "/assets/{asset_id}">>,
     <<"POST", "/liabilities">>, <<"GET", "/liabilities">>,
     <<"PUT", "/liabilities/{liability_id}">>, <<"DELETE", "/liabilities/{liability_id}">>,
     <<"POST", "/budgets">>, <<"GET", "/budgets">>,
     <<"POST", "/savings-goals">>, <<"GET", "/savings-goals">>,
     <<"PUT", "/savings-goals/{goal_id}">>,
     <<"GET", "/dashboard/summary">>, <<"GET", "/reports/cashflow">>,
     <<"GET", "/reports/spending">>}

\* a request for a method and path no route is registered for
unrouted_request(user, method, path) ==
    /\ <<method, path>> \notin Routes
    /\ response' = Resp(method \o " " \o path, user, 404, 0, <<>>, 0)
    /\ UNCHANGED <<now, nextId, transactions, assets, liabilities, budgets, savings_goals,
                   users, registering, processing, updating>>

(***************************************************************************)
(* The clock, the requests drawn and the specifications.                   *)
(***************************************************************************)

\* the clock moves forward to t
Tick(t) ==
    /\ t > now
    /\ now' = t
    /\ UNCHANGED <<nextId, transactions, assets, liabilities, budgets, savings_goals, response, users, registering, processing, updating>>

\* the start date of the recurring templates drawn, and the clock readings visited
StartDate == MkDateTime(2024, 1, 31)

ClockValues ==
    {StartDate, MkDateTime(2024, 2, 7),
     MkDateTime(2024, 3, 31), MkDateTime(2024, 3, 31) + 1,
     MkDateTime(2025, 1, 31)}

TxData(type, amount, description, category, date, is_recurring, frequency, start) ==
    [type |-> type, amount |-> amount, description |-> description, category |-> category,
     date |-> date, is_recurring |-> is_recurring, frequency |-> frequency,
     recurring_start_date |-> start]

\* create-transaction requests the materializer runs over: <<caller, TransactionCreate>>
RecurringRequests ==
    {<<"A", TxData("expense", 1200, "Rent", "housing", StartDate, TRUE, "monthly", StartDate)>>,
     <<"A", TxData("expense", 1200, "Rent", "housing", MkDateTime(2024, 3, 31), FALSE, NoFreq, NoDate)>>,
     <<"A", TxData("expense", 1200, "Rent (Recurring)", "housing", StartDate, TRUE, "monthly", StartDate)>>,
     <<"A", TxData("expense", 30, "Gym", "entertainment", StartDate, TRUE, "weekly", StartDate)>>,
     <<"B", TxData("income", 5500, "Bonus", "salary", StartDate, TRUE, "yearly", StartDate)>>,
     <<"B", TxData("income", 5500, "Bonus", "salary", StartDate, TRUE, "monthly", NoDate)>>,
     <<"B", TxData("expense", 30, "Gym", "entertainment", StartDate, TRUE, "daily", StartDate)>>,
     <<"A", TxData("expense", 45, "Yoga", "healthcare", StartDate, TRUE, "weekly", MkDateTime(2024, 2, 7))>>,
     <<"A", TxData("expense", 20, "Pool", "healthcare", StartDate, TRUE, NoFreq, StartDate)>>}

\* create-transaction requests of the CRUD runs, dated at the clock
CrudRequests(clock) ==
    {<<"A", TxData("expense", 1200, "Rent", "housing", clock, TRUE, "monthly", clock)>>,
     <<"B", TxData("income", 5500, "Salary", "salary", clock, FALSE, NoFreq, NoDate)>>}

AssetInputs == {[description |-> "Checking", current_value |-> 15000]}
AssetUpdates == {[description |-> "Checking (Updated)", current_value |-> 16500]}

LiabilityInputs == {[description |-> "Student Loan", amount_owed |-> 25000]}
LiabilityUpdates == {[description |-> "Student Loan (Updated)", amount_owed |-> 24000]}

BudgetInputs ==
    {[month |-> 1, year |-> 2024, category |-> "food", budget_amount |-> 600]}

GoalInputs == {[goal_name |-> "Emergency Fund", target_amount |-> 10000, current_amount |-> 0]}
GoalUpdates == {[goal_name |-> "Emergency Fund", target_amount |-> 12000, current_amount |-> 3500]}

\* the accounts A and B act under, registered before the runs start
InitialUsers ==
    <<MkUser("A", "a@example.com", hash_password("pw-a"), "Alice", 0),
      MkUser("B", "b@example.com", hash_password("pw-b"), "Bob", 0)>>

\* the register requests, and the UserCreate bodies they carry
RegisterSlots == 1..MaxRegistrations

RegisterInputs ==
    {[email |-> "a@example.com", password |-> "pw-x", name |-> "Mallory"],
     [email |-> "c@example.com", password |-> "pw-c", name |-> "Carol"],
     [email |-> "c@example.com", password |-> "pw-d", name |-> "Dave"]}

\* the process-recurring invocations and the update requests that run interleaved
ProcessSlots == 1..MaxInvocations
UpdateSlots == 1..MaxUpdates

\* an invocation of process-recurring that has not started
NotProcessing ==
    [pc |-> "idle", today |-> 0, queue |-> <<>>, processed_count |-> 0, read |-> <<>>]

\* an update request that has not started
NotUpdating ==
    [pc |-> "idle", op |-> "", user |-> "", id |-> 0, matched_count |-> 0,
     update_data |-> [updated_at |-> 0]]

\* the store operation of process_recurring_transactions that raises (0: none does)
FailPoints == 0..(2 * MaxTxn + 1)

Init ==
    /\ now = StartDate
    /\ nextId = 1
    /\ transactions = <<>>
    /\ assets = <<>>
    /\ liabilities = <<>>
    /\ budgets = <<>>
    /\ savings_goals = <<>>
    /\ response = Resp("", "", 0, 0, <<>>, 0)
    /\ users = InitialUsers
    /\ registering = [r \in RegisterSlots |-> NotRegistering]
    /\ processing = [p \in ProcessSlots |-> NotProcessing]
    /\ updating = [q \in UpdateSlots |-> NotUpdating]

\* the clock readings visited while the CRUD routes run
CrudClock == {StartDate + 1}

\* ids a request may name: every id handed out so far and the next, unused one
RequestIds == 1..nextId

\* list-transactions requests drawn: <<start_date, end_date, category>>
ListFilters == {<<NoDate, NoDate, NoFreq>>, <<StartDate, StartDate, "housing">>}

\* the templates and entries are created before the clock moves on
CreateRecurringStep ==
    /\ now = StartDate
    /\ Len(transactions) < MaxTxn
    /\ \E req \in RecurringRequests : create_transaction(req[1], req[2])

TransactionSteps ==
    \/ \E req \in CrudRequests(now) : nextId <= MaxCreates /\ create_transaction(req[1], req[2])
    \/ \E u \in Users, f \in ListFilters : list_transactions(u, f[1], f[2], f[3])
    \/ \E u \in Users, id \in RequestIds : delete_transaction(u, id)

AssetSteps ==
    \/ \E u \in Users, d \in AssetInputs : nextId <= MaxCreates /\ create_asset(u, d)
    \/ \E u \in Users : list_assets(u)
    \/ \E u \in Users, id \in RequestIds, d \in AssetUpdates : update_asset(u, id, d)
    \/ \E u \in Users, id \in RequestIds : delete_asset(u, id)

LiabilitySteps ==
    \/ \E u \in Users, d \in LiabilityInputs : nextId <= MaxCreates /\ create_liability(u, d)
    \/ \E u \in Users : list_liabilities(u)
    \/ \E u \in Users, id \in RequestIds, d \in LiabilityUpdates : update_liability(u, id, d)
    \/ \E u \in Users, id \in RequestIds : delete_liability(u, id)

BudgetSteps ==
    \/ \E u \in Users, d \in BudgetInputs : nextId <= MaxCreates /\ create_budget(u, d)
    \/ \E u \in Users : list_budgets(u)

GoalSteps ==
    \/ \E u \in Users, d \in GoalInputs : nextId <= MaxCreates /\ create_savings_goal(u, d)
    \/ \E u \in Users : list_savings_goals(u)
    \/ \E u \in Users, id \in RequestIds, d \in GoalUpdates : update_savings_goal(u, id, d)

\* the debt requests of the API table and of test_debt_management: <<method, path>>
DebtRequests ==
    {<<"POST", "/debts">>, <<"GET", "/debts">>,
     <<"PUT", "/debts/{debt_id}">>, <<"DELETE", "/debts/{debt_id}">>}

DebtSteps == \E req \in DebtRequests : unrouted_request("A", req[1], req[2])

\* The CRUD routes, one request at a time.
NextCrud ==
    \/ TransactionSteps
    \/ AssetSteps
    \/ LiabilitySteps
    \/ BudgetSteps
    \/ GoalSteps
    \/ DebtSteps
    \/ \E t \in CrudClock : Tick(t)

SpecCrud == Init /\ [][NextCrud]_vars

\* The materializer over the transactions users create, with a store that never fails.
NextRecurring ==
    \/ CreateRecurringStep
    \/ process_recurring_transactions(0) /\ Len(transactions') <= MaxTxn
    \/ \E t \in ClockValues : Tick(t)

SpecRecurring == Init /\ [][NextRecurring]_vars

\* The same, with a store operation of the materializer that may raise.
NextFaults ==
    \/ CreateRecurringStep
    \/ \E f \in FailPoints : process_recurring_transactions(f) /\ Len(transactions') <= MaxTxn
    \/ \E t \in ClockValues : Tick(t)

SpecFaults == Init /\ [][NextFaults]_vars

\* Register requests, interleaved at their awaits.
NextRegister ==
    \/ \E r \in RegisterSlots, d \in RegisterInputs : register_find(r, d)
    \/ \E r \in RegisterSlots : register_insert(r)
    \/ \E t \in CrudClock : Tick(t)

SpecRegister == Init /\ [][NextRegister]_vars

\* create-transaction requests the reports run over: <<caller, TransactionCreate>>
ReportRequests ==
    {<<"A", TxData("expense", 10, "Lunch", "food", StartDate, FALSE, NoFreq, NoDate)>>,
     <<"A", TxData("expense", 10, "Power", "utilities", StartDate, FALSE, NoFreq, NoDate)>>,
     <<"A", TxData("expense", 10, "Bus", "transport", StartDate, FALSE, NoFreq, NoDate)>>,
     <<"A", TxData("expense", 0, "Voucher", "shopping", StartDate, FALSE, NoFreq, NoDate)>>,
     <<"A", TxData("income", 5500, "Salary", "salary", StartDate, FALSE, NoFreq, NoDate)>>,
     <<"A", TxData("expense", 20, "Dinner", "food", MkDateTime(2024, 3, 31), FALSE, NoFreq, NoDate)>>,
     <<"B", TxData("expense", 30, "Lunch", "food", StartDate, FALSE, NoFreq, NoDate)>>}

\* spending-report requests drawn: <<start_date, end_date>>, NoDate for a parameter left out
SpendingRanges ==
    {<<NoDate, NoDate>>, <<StartDate, StartDate>>, <<StartDate, MkDateTime(2024, 3, 31)>>}

\* the clock reading the reports are asked at after the start
ReportClock == {MkDateTime(2024, 3, 31) + 1}

\* the records are created before the clock moves on
CreateReportStep ==
    /\ now = StartDate
    /\ nextId <= MaxReportRecords
    /\ \/ \E req \in ReportRequests : create_transaction(req[1], req[2])
       \/ \E d \in AssetInputs : create_asset("A", d)
       \/ \E d \in LiabilityInputs : create_liability("A", d)

\* The dashboard and the reports over the records users create.
NextReports ==
    \/ CreateReportStep
    \/ \E u \in Users : dashboard_summary(u)
    \/ \E u \in Users, r \in SpendingRanges : get_spending_report(u, r[1], r[2])
    \/ \E t \in ReportClock : Tick(t)

SpecReports == Init /\ [][NextReports]_vars

\* the clock readings the cash-flow report is asked at: a day early in every month
\* from 2024-02 to 2025-12, at the second tick of the day
CashflowClock ==
    {MkDateTime(2024 + ((k - 1) \div 12), ((k - 1) % 12) + 1, d) + 1 :
        k \in 2..24, d \in {1}}

\* The cash-flow report at the dates of two years.
NextCashflow ==
    \/ \E req \in CrudRequests(now) :
          now = StartDate /\ nextId <= MaxCreates /\ create_transaction(req[1], req[2])
    \/ \E u \in Users : cashflow_report(u)
    \/ \E t \in CashflowClock : Tick(t)

SpecCashflow == Init /\ [][NextCashflow]_vars

\* Monthly and yearly templates next to transactions entered by hand under the
\* template's description and amount, a negative amount, and an asset.
TriggerRequests ==
    {<<"A", TxData("expense", 1200, "Rent", "housing", StartDate, TRUE, "monthly", StartDate)>>,
     <<"A", TxData("expense", 1200, "Rent", "housing", MkDateTime(2024, 3, 31) + 1, FALSE, NoFreq, NoDate)>>,
     <<"A", TxData("expense", 1200, "Rent", "housing", MkDateTime(2024, 3, 1), FALSE, NoFreq, NoDate)>>,
     <<"B", TxData("income", 5500, "Bonus", "salary", StartDate, TRUE, "yearly", StartDate)>>,
     <<"B", TxData("income", 5500, "Bonus", "salary", MkDateTime(2025, 12, 31) + 1, FALSE, NoFreq, NoDate)>>,
     <<"B", TxData("income", 5500, "Bonus", "salary", MkDateTime(2025, 1, 1), FALSE, NoFreq, NoDate)>>,
     <<"A", TxData("expense", -50, "Refund", "shopping", StartDate, FALSE, NoFreq, NoDate)>>}

CreateTriggerStep ==
    /\ now = StartDate
    /\ Len(transactions) < MaxTxn
    /\ \E req \in TriggerRequests : create_transaction(req[1], req[2])

CreateTriggerAsset ==
    /\ now = StartDate
    /\ assets = <<>>
    /\ \E d \in AssetInputs : create_asset("A", d)

\* the days the monthly and the yearly template are due on
TriggerClock == {MkDateTime(2024, 3, 31), MkDateTime(2025, 1, 31)}

\* no store operation raises, or the find, or the first or the second store
\* operation of the loop
TriggerFailPoints == 0..3

NextTriggers ==
    \/ CreateTriggerStep
    \/ CreateTriggerAsset
    \/ \E f \in TriggerFailPoints :
          process_recurring_transactions(f) /\ Len(transactions') <= MaxTxn
    \/ \E t \in TriggerClock : Tick(t)

SpecTriggers == Init /\ [][NextTriggers]_vars

\* Monthly templates that start on the 29th, 30th and 31st, with the materializer
\* invoked on the days of months that lack some of these days.
MonthEndRequests ==
    {<<"A", TxData("expense", 1200, "Rent", "housing", StartDate, TRUE, "monthly", MkDateTime(2024, 1, 31))>>,
     <<"A", TxData("expense", 60, "Phone", "utilities", StartDate, TRUE, "monthly", MkDateTime(2024, 1, 30))>>,
     <<"B", TxData("expense", 15, "Music", "entertainment", StartDate, TRUE, "monthly", MkDateTime(2024, 1, 29))>>}

MonthEndClock ==
    {MkDateTime(2024, 2, d) : d \in 1..29}
    \cup {MkDateTime(2024, 3, 31)}
    \cup {MkDateTime(2024, 4, d) : d \in 1..30}
    \cup {MkDateTime(2025, 2, d) : d \in 1..28}

CreateMonthEndStep ==
    /\ now = StartDate
    /\ Len(transactions) < MaxTxn
    /\ \E req \in MonthEndRequests : create_transaction(req[1], req[2])

NextMonthEnd ==
    \/ CreateMonthEndStep
    \/ process_recurring_transactions(0) /\ Len(transactions') <= MaxTxn
    \/ \E t \in MonthEndClock : Tick(t)

SpecMonthEnd == Init /\ [][NextMonthEnd]_vars

\* Invocations of the materializer interleaved at their awaits with each other
\* and with create-transaction requests.
RaceTemplates ==
    {<<"A", TxData("expense", 1200, "Rent", "housing", StartDate, TRUE, "monthly", StartDate)>>,
     <<"B", TxData("income", 5500, "Bonus", "salary", StartDate, TRUE, "yearly", StartDate)>>}

RaceRequests ==
    {<<"A", TxData("expense", 1200, "Rent", "housing", MkDateTime(2024, 3, 1), FALSE, NoFreq, NoDate)>>}

RaceClock == {MkDateTime(2024, 3, 31), MkDateTime(2025, 1, 31)}

\* no invocation is between its first and its last await
NoneInFlight == \A p \in ProcessSlots : processing[p].pc \in {"idle", "done"}

CreateRaceTemplate ==
    /\ now = StartDate
    /\ Len(transactions) < MaxTxn
    /\ \E req \in RaceTemplates : create_transaction(req[1], req[2])

CreateRaceStep ==
    /\ now > StartDate
    /\ Len(transactions) < MaxTxn
    /\ \E req \in RaceRequests : create_transaction(req[1], req[2])

NextRace ==
    \/ CreateRaceTemplate
    \/ CreateRaceStep
    \/ \E p \in ProcessSlots : pr_find(p)
    \/ \E p \in ProcessSlots : pr_lookup(p)
    \/ \E p \in ProcessSlots : pr_insert(p) /\ Len(transactions') <= MaxTxn
    \/ \E p \in ProcessSlots : pr_return(p)
    \/ \E t \in RaceClock : NoneInFlight /\ Tick(t)

SpecRace == Init /\ [][NextRace]_vars

\* PUT requests interleaved at their awaits with the deletes and the PUTs of
\* the same user's other clients.
AssetRacingUpdates == {[description |-> "Checking (Joint)", current_value |-> 17000]}
LiabilityRacingUpdates == {[description |-> "Student Loan (Refinanced)", amount_owed |-> 23000]}
GoalRacingUpdates == {[goal_name |-> "Emergency Fund", target_amount |-> 15000, current_amount |-> 4000]}

CreateOnceSteps ==
    \/ \E d \in AssetInputs : assets = <<>> /\ nextId <= MaxCreates + 1 /\ create_asset("A", d)
    \/ \E d \in LiabilityInputs :
          liabilities = <<>> /\ nextId <= MaxCreates + 1 /\ create_liability("A", d)
    \/ \E d \in GoalInputs :
          savings_goals = <<>> /\ nextId <= MaxCreates + 1 /\ create_savings_goal("A", d)

InFlightUpdateSteps ==
    \/ \E q \in UpdateSlots, id \in RequestIds, d \in AssetUpdates :
          update_asset_write(q, "A", id, d)
    \/ \E q \in UpdateSlots : update_asset_read(q)
    \/ \E q \in UpdateSlots, id \in RequestIds, d \in LiabilityUpdates :
          update_liability_write(q, "A", id, d)
    \/ \E q \in UpdateSlots : update_liability_read(q)
    \/ \E q \in UpdateSlots, id \in RequestIds, d \in GoalUpdates :
          update_savings_goal_write(q, "A", id, d)
    \/ \E q \in UpdateSlots : update_savings_goal_read(q)

\* the other clients act while a PUT is between its awaits
SomeInFlight == \E q \in UpdateSlots : updating[q].pc = "written"

RacingSteps ==
    \/ \E id \in RequestIds, d \in AssetRacingUpdates : update_asset("A", id, d)
    \/ \E id \in RequestIds, d \in LiabilityRacingUpdates : update_liability("A", id, d)
    \/ \E id \in RequestIds, d \in GoalRacingUpdates : update_savings_goal("A", id, d)
    \/ \E id \in RequestIds : delete_asset("A", id)
    \/ \E id \in RequestIds : delete_liability("A", id)

\* no PUT has been sent yet
NoneStarted == \A q \in UpdateSlots : updating[q].pc = "idle"

NextUpdateRace ==
    \/ NoneStarted /\ CreateOnceSteps
    \/ InFlightUpdateSteps
    \/ SomeInFlight /\ RacingSteps

SpecUpdateRace == Init /\ [][NextUpdateRace]_vars

Next ==
    \/ NextCrud \/ NextFaults \/ NextRegister \/ NextReports \/ NextCashflow \/ NextTriggers
    \/ NextMonthEnd \/ NextRace \/ NextUpdateRace

Spec == Init /\ [][Next]_vars

(***************************************************************************)
(* Properties of the materializer.                                         *)
(***************************************************************************)

Today == DateOf(now)

\* the records db.transactions gained in a step
Inserted == SubSeq(transactions', Len(transactions) + 1, Len(transactions'))

OnlyInserts ==
    /\ Len(transactions') >= Len(transactions)
    /\ SubSeq(transactions', 1, Len(transactions)) = transactions

\* r carries what an instance takes from template t
IsInstanceOf(r, t) ==
    /\ r.is_recurring = FALSE
    /\ r.user_id = t.user_id
    /\ r.type = t.type
    /\ r.amount = t.amount
    /\ r.category = t.category
    /\ r.description = t.description \o " (Recurring)"

InstancesOf(txns, t) == {i \in 1..Len(txns) : IsInstanceOf(txns[i], t)}

InstancesBetween(txns, t, lo, hi) ==
    {i \in InstancesOf(txns, t) : txns[i].date >= lo /\ txns[i].date <= hi}

\* the collection holds one template, first, and besides it only its instances
OneTemplate(txns) ==
    /\ Len(txns) >= 1
    /\ txns[1].is_recurring
    /\ txns[1].recurring_start_date /= NoDate
    /\ \A i \in 2..Len(txns) : IsInstanceOf(txns[i], txns[1])

FirstOfMonth(date) == MkDateTime(YearOf(date), MonthOf(date), 1)
LastOfMonth(date) ==
    MkDateTime(YearOf(date), MonthOf(date), DaysInMonth(YearOf(date), MonthOf(date))) + (TicksPerDay - 1)
FirstOfYear(date) == MkDateTime(YearOf(date), 1, 1)
LastOfYear(date) == MkDateTime(YearOf(date), 12, 31) + (TicksPerDay - 1)

\* C1: monthly duplicate guard. With a monthly template whose start day-of-month
\* is today's and whose start lies before today, an invocation creates exactly
\* one instance when none is dated this month, and none when one already is.
C1_MonthlyDuplicateGuard ==
    [][ ( /\ process_recurring_transactions(0)
          /\ OneTemplate(transactions)
          /\ transactions[1].frequency = "monthly"
          /\ DayOf(Today) = DayOf(DateOf(transactions[1].recurring_start_date))
          /\ Today > DateOf(transactions[1].recurring_start_date) )
        => LET t == transactions[1]
               before == InstancesBetween(transactions, t, FirstOfMonth(Today), LastOfMonth(Today))
               after == InstancesBetween(transactions', t, FirstOfMonth(Today), LastOfMonth(Today))
           IN  IF before = {} THEN Cardinality(after) = 1 ELSE after = before ]_vars

\* C2: yearly duplicate guard. With a yearly template, however often the
\* materializer has run, at most one of its instances is dated in any one year.
C2_YearlyAtMostOnePerYear ==
    ( OneTemplate(transactions) /\ transactions[1].frequency = "yearly" )
    => Cardinality(InstancesBetween(transactions, transactions[1],
                                    FirstOfYear(Today), LastOfYear(Today))) <= 1

\* a weekly template t is due: the days since its start are >= 0 and a multiple of 7
WeeklyQualifies(t, today) ==
    /\ t.is_recurring
    /\ t.frequency = "weekly"
    /\ t.recurring_start_date /= NoDate
    /\ today - DateOf(t.recurring_start_date) >= 0
    /\ (today - DateOf(t.recurring_start_date)) % 7 = 0

\* the stored templates that carry what t carries (t among them)
Twins(txns, t) ==
    {j \in 1..Len(txns) : /\ txns[j].is_recurring
                          /\ txns[j].frequency = t.frequency
                          /\ txns[j].recurring_start_date = t.recurring_start_date
                          /\ txns[j].user_id = t.user_id
                          /\ txns[j].type = t.type
                          /\ txns[j].amount = t.amount
                          /\ txns[j].category = t.category
                          /\ txns[j].description = t.description}

\* C3: weekly gap. Every invocation on a day a weekly template is due inserts a
\* new instance of it dated today, whatever instances dated today exist already
\* (one per stored copy of the template), so N invocations leave N of them.
C3_WeeklyDuplicates ==
    [][ process_recurring_transactions(0)
        => \A i \in 1..Len(transactions) :
             WeeklyQualifies(transactions[i], Today)
             => LET t == transactions[i]
                    before == InstancesBetween(transactions, t, Midnight(Today), Midnight(Today))
                    after == InstancesBetween(transactions', t, Midnight(Today), Midnight(Today))
                IN  Cardinality(after) = Cardinality(before) + Cardinality(Twins(transactions, t)) ]_vars

\* two invocations on a due day have left two instances of a weekly template dated today
C3_Witness ==
    /\ response.op = "process_recurring"
    /\ response.count = 1
    /\ \E i \in 1..Len(transactions) :
         /\ WeeklyQualifies(transactions[i], Today)
         /\ Cardinality(InstancesBetween(transactions, transactions[i],
                                         Midnight(Today), Midnight(Today))) = 2

\* the stored templates
Templates(txns) == SelectSeq(txns, LAMBDA t : t.is_recurring)

\* no template's description is another template's description with the suffix
NoCollision(txns) ==
    \A i, j \in 1..Len(txns) :
        (txns[i].is_recurring /\ txns[j].is_recurring)
        => txns[j].description /= txns[i].description \o " (Recurring)"

\* a template of frequency f with a start date
TemplateOf(t, f) == t.is_recurring /\ t.frequency = f /\ t.recurring_start_date /= NoDate

\* r would pass for an instance of t: every template that does has t's frequency
\* and start date
Distinct(txns, t) ==
    \A j \in 1..Len(txns) :
        ( /\ txns[j].is_recurring
          /\ txns[j].user_id = t.user_id
          /\ txns[j].type = t.type
          /\ txns[j].amount = t.amount
          /\ txns[j].category = t.category
          /\ txns[j].description = t.description )
        => ( txns[j].frequency = t.frequency
             /\ txns[j].recurring_start_date = t.recurring_start_date )

\* the step inserted an instance of t
Spawned(t) == \E k \in 1..Len(Inserted) : IsInstanceOf(Inserted[k], t)

\* C22: weekly trigger rule. An invocation spawns an instance of a weekly
\* template with a start date if and only if the number of days from the start
\* date to today is non-negative and divisible by 7.
C22_WeeklyTrigger ==
    [][ process_recurring_transactions(0)
        => \A i \in 1..Len(transactions) :
             ( TemplateOf(transactions[i], "weekly") /\ Distinct(transactions, transactions[i]) )
             => LET days == Today - DateOf(transactions[i].recurring_start_date)
                IN  Spawned(transactions[i]) <=> (days >= 0 /\ days % 7 = 0) ]_vars

\* an invocation seven days before the start of a weekly template has inserted
\* nothing, with another weekly template's instance of its start date stored
C22_Witness ==
    /\ response.op = "process_recurring"
    /\ \E i \in 1..Len(transactions) :
         /\ TemplateOf(transactions[i], "weekly")
         /\ Today - DateOf(transactions[i].recurring_start_date) = -7
         /\ InstancesOf(transactions, transactions[i]) = {}
    /\ \E i \in 1..Len(transactions) :
         /\ TemplateOf(transactions[i], "weekly")
         /\ InstancesBetween(transactions, transactions[i],
                             transactions[i].recurring_start_date,
                             transactions[i].recurring_start_date) /= {}

\* a transaction entered under template t's user, description and amount, not a
\* template itself, dated on a day from lo to hi
Blocking(txns, t, lo, hi) ==
    \E i \in 1..Len(txns) :
        /\ ~txns[i].is_recurring
        /\ txns[i].user_id = t.user_id
        /\ txns[i].description = t.description
        /\ txns[i].amount = t.amount
        /\ DateOf(txns[i].date) >= lo
        /\ DateOf(txns[i].date) <= hi

\* the same, dated from datetime lo to datetime hi
BlockingAt(txns, t, lo, hi) ==
    \E i \in 1..Len(txns) :
        /\ ~txns[i].is_recurring
        /\ txns[i].user_id = t.user_id
        /\ txns[i].description = t.description
        /\ txns[i].amount = t.amount
        /\ txns[i].date >= lo
        /\ txns[i].date <= hi

\* C23: monthly trigger rule. An invocation spawns an instance of a monthly
\* template if and only if today's day-of-month is the start date's, today is
\* strictly after the start date, and no non-recurring transaction of the
\* template's user, description and amount is dated between the first day of
\* today's month and today.
C23_MonthlyTrigger ==
    [][ ( process_recurring_transactions(0) /\ NoCollision(transactions) )
        => \A i \in 1..Len(transactions) :
             ( TemplateOf(transactions[i], "monthly") /\ Distinct(transactions, transactions[i]) )
             => LET t == transactions[i]
                    start == DateOf(t.recurring_start_date)
                IN  Spawned(t)
                    <=> /\ DayOf(Today) = DayOf(start)
                        /\ Today > start
                        /\ ~Blocking(transactions, t, DateOf(FirstOfMonth(Today)), Today) ]_vars

\* what the monthly branch does: the transaction that blocks is dated from
\* midnight of the first day of the month to midnight of today
MonthlyTriggerAtMidnight ==
    [][ ( process_recurring_transactions(0) /\ NoCollision(transactions) )
        => \A i \in 1..Len(transactions) :
             ( TemplateOf(transactions[i], "monthly") /\ Distinct(transactions, transactions[i]) )
             => LET t == transactions[i]
                    start == DateOf(t.recurring_start_date)
                IN  Spawned(t)
                    <=> /\ DayOf(Today) = DayOf(start)
                        /\ Today > start
                        /\ ~BlockingAt(transactions, t, FirstOfMonth(Today), Midnight(Today)) ]_vars

\* C24: yearly trigger rule. An invocation spawns an instance of a yearly
\* template if and only if today's month and day are the start date's, today's
\* year is greater than the start year, and no non-recurring transaction of the
\* template's user, description and amount is dated within today's calendar year.
C24_YearlyTrigger ==
    [][ ( process_recurring_transactions(0) /\ NoCollision(transactions) )
        => \A i \in 1..Len(transactions) :
             ( TemplateOf(transactions[i], "yearly") /\ Distinct(transactions, transactions[i]) )
             => LET t == transactions[i]
                    start == DateOf(t.recurring_start_date)
                IN  Spawned(t)
                    <=> /\ MonthOf(Today) = MonthOf(start)
                        /\ DayOf(Today) = DayOf(start)
                        /\ YearOf(Today) > YearOf(start)
                        /\ ~Blocking(transactions, t, DateOf(FirstOfYear(Today)),
                                     DateOf(LastOfYear(Today))) ]_vars

\* what the yearly branch does: the transaction that blocks is dated from
\* midnight of January 1 to midnight of December 31
YearlyTriggerAtMidnight ==
    [][ ( process_recurring_transactions(0) /\ NoCollision(transactions) )
        => \A i \in 1..Len(transactions) :
             ( TemplateOf(transactions[i], "yearly") /\ Distinct(transactions, transactions[i]) )
             => LET t == transactions[i]
                    start == DateOf(t.recurring_start_date)
                IN  Spawned(t)
                    <=> /\ MonthOf(Today) = MonthOf(start)
                        /\ DayOf(Today) = DayOf(start)
                        /\ YearOf(Today) > YearOf(start)
                        /\ ~BlockingAt(transactions, t, FirstOfYear(Today),
                                       MkDateTime(YearOf(Today), 12, 31)) ]_vars

\* the number of days of the month of date
DaysOfMonth(date) == DaysInMonth(YearOf(date), MonthOf(date))

\* C29: a monthly template whose start day-of-month is 29, 30 or 31 spawns no
\* instance in a month that does not contain that day, on whichever day of the
\* month the materializer is invoked.
C29_NoMonthEndClamp ==
    [][ process_recurring_transactions(0)
        => \A i \in 1..Len(transactions) :
             ( /\ TemplateOf(transactions[i], "monthly")
               /\ Distinct(transactions, transactions[i])
               /\ DayOf(DateOf(transactions[i].recurring_start_date)) \in {29, 30, 31}
               /\ DaysOfMonth(Today) < DayOf(DateOf(transactions[i].recurring_start_date)) )
             => ~Spawned(transactions[i]) ]_vars

\* an invocation on the last day of February 2025 has inserted nothing for the
\* stored templates that start on the 31st, the 30th and the 29th
C29_Witness ==
    /\ response.op = "process_recurring"
    /\ response.status = 200
    /\ response.count = 0
    /\ now = MkDateTime(2025, 2, 28)
    /\ Len(transactions) = 3
    /\ \A d \in {29, 30, 31} :
         \E i \in 1..Len(transactions) :
             /\ TemplateOf(transactions[i], "monthly")
             /\ DayOf(DateOf(transactions[i].recurring_start_date)) = d

\* C27: the existence lookup and the insert are not atomic. The insert of an
\* invocation carries out what its lookup decided, whatever has been stored
\* since: it inserts one instance of the template at hand, and it leaves another
\* invocation that has decided on the same template about to insert its own.
C27_LookupThenInsertNotAtomic ==
    [][ \A p \in ProcessSlots :
          pr_insert(p)
          => /\ OnlyInserts
             /\ Len(Inserted) = 1
             /\ IsInstanceOf(Inserted[1], Head(processing[p].queue))
             /\ \A q \in ProcessSlots \ {p} : processing'[q] = processing[q] ]_vars

\* two invocations have returned; the lookup of each for the same monthly
\* template saw the same collection, without an instance of this month, and
\* each has inserted an instance
C27_Witness ==
    /\ processing[1].pc = "done"
    /\ processing[2].pc = "done"
    /\ processing[1].processed_count = 1
    /\ processing[2].processed_count = 1
    /\ processing[1].read = processing[2].read
    /\ Len(processing[1].read) = 1
    /\ TemplateOf(processing[1].read[1], "monthly")
    /\ Len(transactions) = 3
    /\ transactions[1] = processing[1].read[1]
    /\ IsInstanceOf(transactions[2], transactions[1])
    /\ IsInstanceOf(transactions[3], transactions[1])
    /\ transactions[2].date = transactions[3].date

\* C26: every stored transaction has a non-negative amount.
C26_NonNegativeAmounts ==
    \A i \in 1..Len(transactions) : transactions[i].amount >= 0

\* C30: process-recurring only inserts. Whether or not a store operation
\* raises, an invocation leaves every stored transaction and every record of
\* the other collections as they were, every record it inserts has
\* is_recurring false and is the instance of a stored template, so the
\* templates are those of before and no instance is among them.
C30_OnlyInserts ==
    [][ \A f \in TriggerFailPoints :
          process_recurring_transactions(f)
          => /\ OnlyInserts
             /\ UNCHANGED <<assets, liabilities, budgets, savings_goals, users>>
             /\ \A k \in 1..Len(Inserted) :
                  /\ Inserted[k].is_recurring = FALSE
                  /\ \E i \in 1..Len(transactions) :
                       transactions[i].is_recurring /\ IsInstanceOf(Inserted[k], transactions[i])
             /\ Templates(transactions') = Templates(transactions)
             /\ RecurringTransactions(transactions') = RecurringTransactions(transactions) ]_vars

\* a second invocation has run over a template, its instance of an earlier
\* invocation and an asset, and has inserted one more instance
C30_Witness ==
    /\ response.op = "process_recurring"
    /\ response.count = 1
    /\ assets /= <<>>
    /\ Len(transactions) = 3
    /\ transactions[1].is_recurring
    /\ IsInstanceOf(transactions[2], transactions[1])
    /\ IsInstanceOf(transactions[3], transactions[1])
    /\ transactions[2].created_at < transactions[3].created_at

\* a template the loop has no rule for: no start date, or a frequency that is
\* missing or none of weekly, monthly, yearly
Invalid(t) ==
    /\ t.is_recurring
    /\ \/ t.recurring_start_date = NoDate
       \/ t.frequency \notin {"weekly", "monthly", "yearly"}

\* the collection without its invalid templates
WithoutInvalid(txns) == SelectSeq(txns, LAMBDA t : ~Invalid(t))

\* the records an invocation adds to a collection
Added(txns) ==
    LET st == RunProcessRecurring(txns, nextId, now, 0)
    IN  SubSeq(st.txns, Len(txns) + 1, Len(st.txns))

\* C25: invalid templates are skipped silently. A template with no start date
\* or with a missing or unrecognised frequency causes no insert and no error,
\* and the invocation inserts for the other templates what it inserts in the
\* run in which the invalid templates are not stored.
C25_InvalidTemplatesSkipped ==
    [][ process_recurring_transactions(0)
        => /\ response'.status = 200
           /\ \A i \in 1..Len(transactions) :
                ( Invalid(transactions[i]) /\ Distinct(transactions, transactions[i]) )
                => ~Spawned(transactions[i])
           /\ Inserted = Added(WithoutInvalid(transactions))
           /\ response'.count = Len(Added(WithoutInvalid(transactions))) ]_vars

\* an invocation over a template without frequency and a template that was due
\* has inserted one instance
C25_Witness ==
    /\ response.op = "process_recurring"
    /\ response.status = 200
    /\ response.count = 1
    /\ \E i \in 1..Len(transactions) :
         /\ Invalid(transactions[i])
         /\ transactions[i].frequency = NoFreq
         /\ transactions[i].recurring_start_date /= NoDate
         /\ DateOf(transactions[i].recurring_start_date) = Today
    /\ \E i \in 1..Len(transactions) :
         ~transactions[i].is_recurring /\ transactions[i].created_at = now

\* the frequency policy: does template t qualify today, given the records in txns
Qualifies(txns, t, today) ==
    /\ t.recurring_start_date /= NoDate
    /\ LET start == DateOf(t.recurring_start_date)
           Already(lo, hi) ==
               \E i \in 1..Len(txns) :
                   /\ ~txns[i].is_recurring
                   /\ txns[i].user_id = t.user_id
                   /\ txns[i].description = t.description
                   /\ txns[i].amount = t.amount
                   /\ txns[i].date >= lo
                   /\ txns[i].date <= hi
       IN  \/ /\ t.frequency = "weekly"
              /\ today - start >= 0
              /\ (today - start) % 7 = 0
           \/ /\ t.frequency = "monthly"
              /\ DayOf(today) = DayOf(start)
              /\ today > start
              /\ ~Already(FirstOfMonth(today), Midnight(today))
           \/ /\ t.frequency = "yearly"
              /\ MonthOf(today) = MonthOf(start)
              /\ DayOf(today) = DayOf(start)
              /\ YearOf(today) > YearOf(start)
              /\ ~Already(FirstOfYear(today), MkDateTime(YearOf(today), 12, 31))

\* the templates of queue that qualify when their turn comes: each is judged
\* against the first base + k records of post, k instances having been inserted
RECURSIVE QualifyingInTurn(_, _, _, _, _)
QualifyingInTurn(post, base, k, queue, today) ==
    IF queue = <<>> THEN <<>>
    ELSE IF base + k <= Len(post) /\ Qualifies(SubSeq(post, 1, base + k), Head(queue), today)
    THEN <<Head(queue)>> \o QualifyingInTurn(post, base, k + 1, Tail(queue), today)
    ELSE QualifyingInTurn(post, base, k, Tail(queue), today)

C6_InstanceFields ==
    [][ process_recurring_transactions(0)
        => ( OnlyInserts
             /\ \A k \in 1..Len(Inserted) :
                  /\ Inserted[k].date = Today * TicksPerDay
                  /\ Inserted[k].is_recurring = FALSE
                  /\ \E i \in 1..Len(transactions) :
                       /\ transactions[i].is_recurring
                       /\ IsInstanceOf(Inserted[k], transactions[i]) ) ]_vars

\* an instance inserted while the clock stood past midnight is in the collection
C6_Witness ==
    /\ response.op = "process_recurring"
    /\ response.count >= 1
    /\ now % TicksPerDay /= 0
    /\ \E i \in 1..Len(transactions) :
         /\ ~transactions[i].is_recurring
         /\ transactions[i].created_at = now
         /\ transactions[i].date = Midnight(Today)

\* C7: partial-failure tolerance. When a store operation raises while one
\* template is processed, every other template that qualifies still gets its
\* instance: at most one qualifying template is left without a new instance.
C7_PartialFailureTolerance ==
    [][ \A f \in FailPoints \ {0, 1} :
          ( process_recurring_transactions(f) /\ NoCollision(transactions) )
          => Cardinality({ i \in 1..Len(transactions) :
                             /\ transactions[i].is_recurring
                             /\ Qualifies(transactions, transactions[i], Today)
                             /\ \A k \in 1..Len(Inserted) :
                                  ~IsInstanceOf(Inserted[k], transactions[i]) }) <= 1 ]_vars

\* C8: a template is never shown as a ledger entry: no record with
\* is_recurring = TRUE is in a list GET /transactions returns or among the
\* records the dashboard sums into monthly income and expenses.
C8_TemplatesNeverShown ==
    /\ (response.op = "get_transactions"
        => \A k \in 1..Len(response.body) : ~response.body[k].is_recurring)
    /\ \A u \in Users :
         LET ts == MonthTransactions(transactions, u, now)
         IN  \A k \in 1..Len(ts) : ~ts[k].is_recurring

(***************************************************************************)
(* Properties of the CRUD routes.                                          *)
(***************************************************************************)

ListOps == {"get_transactions", "get_assets", "get_liabilities", "get_budgets", "get_savings_goals"}

CreateOps == {"create_transaction", "create_asset", "create_liability", "create_budget",
              "create_savings_goal"}

\* id names a record of coll that belongs to somebody other than user
Foreign(coll, id, user) == \E i \in 1..Len(coll) : coll[i].id = id /\ coll[i].user_id /= user

\* the record of coll with this id
Stored(coll, id) == coll[CHOOSE i \in 1..Len(coll) : coll[i].id = id]

Has(coll, id) == \E i \in 1..Len(coll) : coll[i].id = id

\* a record keeps its owner as long as it is stored
OwnerKept(old, new) ==
    \A i \in 1..Len(old) : Has(new, old[i].id) => Stored(new, old[i].id).user_id = old[i].user_id

\* C4: tenant isolation. A record is created with its caller as owner and keeps
\* that owner; a list holds only records owned by the caller it is returned to;
\* an update or delete naming another user's record answers 404 and leaves the
\* collection as it was.
C4_TenantIsolation ==
    [][ LET op == response'.op
            u == response'.user
            id == response'.id
        IN  /\ (op \in CreateOps => response'.body[1].user_id = u)
            /\ OwnerKept(transactions, transactions')
            /\ OwnerKept(assets, assets')
            /\ OwnerKept(liabilities, liabilities')
            /\ OwnerKept(budgets, budgets')
            /\ OwnerKept(savings_goals, savings_goals')
            /\ (op \in ListOps => \A k \in 1..Len(response'.body) : response'.body[k].user_id = u)
            /\ (op = "delete_transaction" /\ delete_transaction(u, id) /\ Foreign(transactions, id, u))
               => (response'.status = 404 /\ transactions' = transactions)
            /\ (op = "delete_asset" /\ delete_asset(u, id) /\ Foreign(assets, id, u))
               => (response'.status = 404 /\ assets' = assets)
            /\ (op = "delete_liability" /\ delete_liability(u, id) /\ Foreign(liabilities, id, u))
               => (response'.status = 404 /\ liabilities' = liabilities)
            /\ \A d \in AssetUpdates :
                 (op = "update_asset" /\ update_asset(u, id, d) /\ Foreign(assets, id, u))
                 => (response'.status = 404 /\ assets' = assets)
            /\ \A d \in LiabilityUpdates :
                 (op = "update_liability" /\ update_liability(u, id, d) /\ Foreign(liabilities, id, u))
                 => (response'.status = 404 /\ liabilities' = liabilities)
            /\ \A d \in GoalUpdates :
                 (op = "update_savings_goal" /\ update_savings_goal(u, id, d)
                  /\ Foreign(savings_goals, id, u))
                 => (response'.status = 404 /\ savings_goals' = savings_goals) ]_vars

\* a delete naming another user's asset was answered 404 and the asset is still stored
C4_Witness ==
    /\ response.op = "delete_asset"
    /\ response.status = 404
    /\ Foreign(assets, response.id, response.user)

\* the list holds a record with this id that agrees with data on every field of data
ListsCreated(list, id, user, data) ==
    \E k \in 1..Len(list) :
        /\ list[k].id = id
        /\ list[k].user_id = user
        /\ \A f \in DOMAIN data : list[k][f] = data[f]

ListsNot(list, id) == \A k \in 1..Len(list) : list[k].id /= id

Owns(coll, id, user) == \E i \in 1..Len(coll) : coll[i].id = id /\ coll[i].user_id = user

\* the step answered 404 and wrote nothing
NotFoundNothingWritten ==
    /\ response'.status = 404
    /\ UNCHANGED <<transactions, assets, liabilities, budgets, savings_goals, users>>

\* C11: an update or delete whose id matches no record owned by the caller is
\* answered 404 and leaves every stored record of every collection unchanged.
C11_NotFoundLeavesStore ==
    [][ LET op == response'.op
            u == response'.user
            id == response'.id
        IN  /\ (op = "delete_transaction" /\ delete_transaction(u, id) /\ ~Owns(transactions, id, u))
               => NotFoundNothingWritten
            /\ (op = "delete_asset" /\ delete_asset(u, id) /\ ~Owns(assets, id, u))
               => NotFoundNothingWritten
            /\ (op = "delete_liability" /\ delete_liability(u, id) /\ ~Owns(liabilities, id, u))
               => NotFoundNothingWritten
            /\ \A d \in AssetUpdates :
                 (op = "update_asset" /\ update_asset(u, id, d) /\ ~Owns(assets, id, u))
                 => NotFoundNothingWritten
            /\ \A d \in LiabilityUpdates :
                 (op = "update_liability" /\ update_liability(u, id, d) /\ ~Owns(liabilities, id, u))
                 => NotFoundNothingWritten
            /\ \A d \in GoalUpdates :
                 (op = "update_savings_goal" /\ update_savings_goal(u, id, d)
                  /\ ~Owns(savings_goals, id, u))
                 => NotFoundNothingWritten ]_vars

\* an update naming an id no stored liability has was answered 404 while liabilities
\* are stored
C11_Witness ==
    /\ response.op = "update_liability"
    /\ response.status = 404
    /\ ~Has(liabilities, response.id)
    /\ Len(liabilities) > 0

\* the records of coll that user owns: the collection of the run in which the
\* other users have stored nothing
OwnedBy(coll, user) == SelectSeq(coll, LAMBDA r : r.user_id = user)

\* C12: existence is not leaked. The answer a caller gets from an update or a
\* delete is the answer the same request gets in the run that differs only in
\* the other users' records being absent: an id of another user's record is
\* answered exactly as an id of no record.
C12_ExistenceNotLeaked ==
    [][ LET op == response'.op
            u == response'.user
            id == response'.id
        IN  /\ (op = "delete_transaction" /\ delete_transaction(u, id))
               => response' = delete_response(op, OwnedBy(transactions, u), id, u)
            /\ (op = "delete_asset" /\ delete_asset(u, id))
               => response' = delete_response(op, OwnedBy(assets, u), id, u)
            /\ (op = "delete_liability" /\ delete_liability(u, id))
               => response' = delete_response(op, OwnedBy(liabilities, u), id, u)
            /\ \A d \in AssetUpdates :
                 (op = "update_asset" /\ update_asset(u, id, d))
                 => response' = update_response(op, OwnedBy(assets, u),
                                                OwnedBy(assets', u), id, u)
            /\ \A d \in LiabilityUpdates :
                 (op = "update_liability" /\ update_liability(u, id, d))
                 => response' = update_response(op, OwnedBy(liabilities, u),
                                                OwnedBy(liabilities', u), id, u)
            /\ \A d \in GoalUpdates :
                 (op = "update_savings_goal" /\ update_savings_goal(u, id, d))
                 => response' = update_response(op, OwnedBy(savings_goals, u),
                                                OwnedBy(savings_goals', u), id, u) ]_vars

\* an update naming another user's asset was answered 404
C12_Witness ==
    /\ response.op = "update_asset"
    /\ response.status = 404
    /\ Foreign(assets, response.id, response.user)

\* C21: debts support the uniform CRUD contract: a create-debt request of an
\* authenticated user is answered 200 with the debt created, and a list request
\* is answered 200 with the caller's debts.
C21_DebtCrud ==
    /\ (response.op = "POST /debts" => (response.status = 200 /\ Len(response.body) = 1))
    /\ (response.op = "GET /debts" => response.status = 200)

\* the collection an update request works on
CollectionOf(op) ==
    IF op = "update_asset" THEN assets
    ELSE IF op = "update_liability" THEN liabilities
    ELSE savings_goals

\* request q takes its read-back step
ReadsBack(q) ==
    update_asset_read(q) \/ update_liability_read(q) \/ update_savings_goal_read(q)

\* C28: an update handler writes and then reads the record back in a second
\* store operation. If the record has been deleted since the write, the
\* request is answered neither with the record nor with 404 but ends in an
\* unhandled error (500); if it is stored, the answer is the record as it is
\* stored now, so the fields another update has written since are returned in
\* place of the request's own.
C28_WriteThenReadBack ==
    [][ \A q \in UpdateSlots :
          ReadsBack(q)
          => LET u == updating[q]
                 coll == CollectionOf(u.op)
             IN  /\ u.matched_count = 1
                 /\ IF Has(coll, u.id)
                    THEN /\ response'.status = 200
                         /\ Len(response'.body) = 1
                         /\ response'.body[1] = FindOne(coll, u.id, u.user)
                         /\ \A f \in DOMAIN u.update_data :
                              FindOne(coll, u.id, u.user)[f] /= u.update_data[f]
                              => response'.body[1][f] /= u.update_data[f]
                    ELSE /\ response'.status = 500
                         /\ response'.body = <<>> ]_vars

\* an asset update matched its record, the record was deleted before the
\* read-back, and the update was answered 500
C28_Witness ==
    /\ response.op = "update_asset"
    /\ response.status = 500
    /\ updating[1].pc = "done"
    /\ updating[1].op = "update_asset"
    /\ updating[1].matched_count = 1
    /\ ~Has(assets, updating[1].id)

\* a savings-goal update was answered with the fields another update wrote
\* between its write and its read-back
C28_OtherUpdateReturned ==
    /\ response.op = "update_savings_goal"
    /\ response.status = 200
    /\ updating[1].pc = "done"
    /\ updating[1].op = "update_savings_goal"
    /\ response.body[1].target_amount /= updating[1].update_data.target_amount

(***************************************************************************)
(* Properties of the dashboard and the reports.                            *)
(***************************************************************************)

\* the spending report a 200 answer carries
Report == response.body[1]

SpendingAnswered == response.op = "get_spending_report" /\ response.status = 200

Amounts(categories) == [i \in 1..Len(categories) |-> categories[i].amount]

Percentages(categories) == [i \in 1..Len(categories) |-> categories[i].percentage]

\* 0.01, in FloatScale-ths
Tolerance == FloatScale \div 100

Abs(x) == IF x < 0 THEN -x ELSE x

\* C14 as stated: with a total greater than 0 the amounts of the returned
\* categories sum to total_spent and their percentages sum to 100 exactly.
C14_PercentagesSumTo100 ==
    (SpendingAnswered /\ Report.total_spent > 0)
    => /\ SumSeq(Amounts(Report.categories)) = Report.total_spent
       /\ SumSeq(Percentages(Report.categories)) = 100 * FloatScale

\* C14, amended: with a total greater than 0 the amounts of the returned
\* categories sum to total_spent and their percentages sum to 100 within 0.01.
C14_PercentagesSumNear100 ==
    (SpendingAnswered /\ Report.total_spent > 0)
    => /\ SumSeq(Amounts(Report.categories)) = Report.total_spent
       /\ Abs(SumSeq(Percentages(Report.categories)) - 100 * FloatScale) <= Tolerance

\* a report of three categories whose percentages do not add up to 100 exactly
C14_Witness ==
    /\ SpendingAnswered
    /\ Report.total_spent > 0
    /\ Len(Report.categories) = 3
    /\ SumSeq(Percentages(Report.categories)) /= 100 * FloatScale

\* the caller's expense transactions dated within [start, end]
InRange(user, start, end) ==
    {i \in 1..Len(transactions) :
        /\ transactions[i].user_id = user
        /\ transactions[i].type = "expense"
        /\ start <= transactions[i].date
        /\ transactions[i].date <= end}

\* the range a spending request resolves to
ResolvedStart(r) == IF r[1] = NoDate THEN ReplaceDay1(now) ELSE r[1]
ResolvedEnd(r) == IF r[2] = NoDate THEN now ELSE r[2]

RECURSIVE SumOver(_, _)
SumOver(ids, coll) ==
    IF ids = {} THEN 0
    ELSE LET i == CHOOSE i \in ids : TRUE
         IN  coll[i].amount + SumOver(ids \ {i}, coll)

\* C15: whenever the total spent in the range is 0, matching expense
\* transactions or not, the report is returned without error and every
\* category's percentage is 0.
C15_ZeroTotalReport ==
    [][ \A u \in Users, r \in SpendingRanges :
          (get_spending_report(u, r[1], r[2])
           /\ SumOver(InRange(u, ResolvedStart(r), ResolvedEnd(r)), transactions) = 0)
          => /\ response'.status = 200
             /\ \A k \in 1..Len(response'.body[1].categories) :
                   response'.body[1].categories[k].percentage = 0 ]_vars

\* C16: the categories list has exactly one entry per category with an expense
\* of the caller dated within [start, end], each entry's amount is the sum of
\* those expenses, and the entries are in order of non-increasing amount.
C16_SelectionAndOrder ==
    [][ \A u \in Users, r \in SpendingRanges :
          get_spending_report(u, r[1], r[2])
          => LET hits == InRange(u, ResolvedStart(r), ResolvedEnd(r))
                 cats == {transactions[i].category : i \in hits}
                 Of(c) == {i \in hits : transactions[i].category = c}
             IN  /\ response'.status = 200
                 /\ LET categories == response'.body[1].categories
                    IN  /\ Len(categories) = Cardinality(cats)
                        /\ {categories[k].category : k \in 1..Len(categories)} = cats
                        /\ \A k \in 1..Len(categories) :
                              categories[k].amount = SumOver(Of(categories[k].category), transactions)
                        /\ \A k \in 1..(Len(categories) - 1) :
                              categories[k].amount >= categories[k + 1].amount ]_vars

\* the sum of vals over the positions ids
RECURSIVE SumAt(_, _)
SumAt(ids, vals) ==
    IF ids = {} THEN 0
    ELSE LET i == CHOOSE i \in ids : TRUE
         IN  vals[i] + SumAt(ids \ {i}, vals)

\* the positions of the records of coll that user owns
OwnedIn(coll, user) == {i \in 1..Len(coll) : coll[i].user_id = user}

\* the caller's transactions of a type dated in the calendar month of the clock
InMonth(user, type) ==
    {i \in 1..Len(transactions) :
        /\ transactions[i].user_id = user
        /\ transactions[i].type = type
        /\ YearOf(DateOf(transactions[i].date)) = YearOf(DateOf(now))
        /\ MonthOf(DateOf(transactions[i].date)) = MonthOf(DateOf(now))}

C18_ExpenseBreakdown ==
    [][ \A u \in Users :
          dashboard_summary(u)
          => LET d == response'.body[1]
                 hits == InMonth(u, "expense")
                 cats == {transactions[i].category : i \in hits}
             IN  /\ DOMAIN d.expense_breakdown = cats
                 /\ \A c \in cats :
                       d.expense_breakdown[c] =
                         SumOver({i \in hits : transactions[i].category = c}, transactions)
                 /\ SumOver(hits, transactions) = d.monthly_expenses ]_vars

\* a breakdown given while the caller also has income in the month and an expense
\* in another month
C18_Witness ==
    /\ response.op = "get_dashboard_summary"
    /\ DOMAIN response.body[1].expense_breakdown /= {}
    /\ response.body[1].monthly_income > 0
    /\ response.body[1].monthly_expenses > 0
    /\ \E i \in 1..Len(transactions) :
          /\ transactions[i].user_id = response.user
          /\ transactions[i].type = "expense"
          /\ MonthOf(DateOf(transactions[i].date)) /= MonthOf(DateOf(now))

\* the place of an entry's (year, month) among the calendar months
MonthIndex(entry) == entry.month[1] * 12 + entry.month[2]

\* C19: the cash-flow report has exactly 12 entries, oldest first: no entry's
\* (year, month) is later than that of the next entry, and the last entry is
\* the current month.
C19_TwelveEntriesOldestFirst ==
    [][ \A u \in Users :
          cashflow_report(u)
          => LET body == response'.body
             IN  /\ response'.status = 200
                 /\ Len(body) = 12
                 /\ \A k \in 1..11 : MonthIndex(body[k]) <= MonthIndex(body[k + 1])
                 /\ body[12].month = <<YearOf(DateOf(now)), MonthOf(DateOf(now))>> ]_vars

\* a report asked in April 2024, with an entry that has income or expenses in it
C19_Witness ==
    /\ response.op = "get_cashflow_report"
    /\ Len(response.body) = 12
    /\ response.body[12].month = <<2024, 4>>
    /\ \E k \in 1..12 : response.body[k].net /= 0

\* C20: month drift. A report asked in March is not the 12 consecutive calendar
\* months ending at the current one: stepping back 30 days from the first of
\* March passes over February, a month appears twice and fewer than 12 months
\* are covered.
C20_MonthDrift ==
    [][ \A u \in Users :
          (cashflow_report(u) /\ MonthOf(DateOf(now)) = 3)
          => LET body == response'.body
             IN  /\ \E k \in 1..11 : body[k].month = body[k + 1].month
                 /\ Cardinality({body[k].month : k \in 1..Len(body)}) < 12
                 /\ \A k \in 1..Len(body) : body[k].month[2] /= 2 ]_vars

\* a report asked in March 2025 in which a month appears twice
C20_Witness ==
    /\ response.op = "get_cashflow_report"
    /\ response.body[12].month = <<2025, 3>>
    /\ \E k \in 1..11 : response.body[k].month = response.body[k + 1].month

(***************************************************************************)
(* Properties of the auth routes.                                          *)
(***************************************************************************)

\* C13: no two stored users share an email, whatever the interleaving of the
\* register requests.
C13_UniqueEmail ==
    \A i, j \in 1..Len(users) : i /= j => users[i].email /= users[j].email

====
